---- MODULE Spec2Model ----
(***************************************************************************)
(* Model of the bounded worker pool runParallel (src/lib/repos.ts).        *)
(*                                                                         *)
(* runParallel starts min(concurrency, len(items)) copies of the async     *)
(* closure runNext.  JavaScript runs each closure without interruption     *)
(* from one `await` to the next, so one action of the model is one such    *)
(* synchronous stretch:                                                    *)
(*   StartWorker  the first stretch of a worker, run inside .map()         *)
(*   AwaitAll     runParallel reaches `await Promise.all(workers)`         *)
(*   Settle       the promise returned by operation() resolves or rejects  *)
(*   Resume       the worker continues after its `await`: it records the   *)
(*                result, reports progress and goes round the loop again   *)
(*   Return       Promise.all resolved: the caller gets {results,cancelled}*)
(*   Reject       Promise.all rejected: the caller gets the error          *)
(*   CancelOn/Off the caller's shouldCancel predicate changes its answer   *)
(***************************************************************************)
EXTENDS Integers, Sequences, FiniteSets, TLC

\* ---------------------------------------------------------------- bounds
MaxItems == 3
MaxConcurrency == 3
MaxValue == 3

Values == 1..MaxValue
WorkerIds == 1..(MaxConcurrency + MaxItems)

\* The lists passed as items: distinct handles in ascending order, as
\* findRepos returns them and as the test suite passes them.  runParallel
\* never inspects an item, so lists with repeated or unordered values behave
\* as these do.
ItemLists ==
  {its \in UNION {[1..n -> Values] : n \in 0..MaxItems} :
     \A j, k \in 1..Len(its) : j < k => its[j] < its[k]}

VARIABLES
  items,          \* parameter items
  concurrency,    \* parameter concurrency
  hasOnProgress,  \* whether the optional onProgress was passed
  shouldCancel,   \* what the caller's shouldCancel predicate answers now
  results,        \* const results: T[] = []   (sparse: absent = not in DOMAIN)
  completed,      \* let completed = 0
  index,          \* let index = 0             (the shared cursor)
  cancelled,      \* let cancelled = false
  pc,             \* where each runNext closure is
  currentIndex,   \* const currentIndex, per worker
  item,           \* const item, per worker
  result,         \* const result, per worker (after the await)
  started,        \* how many runNext() calls .map() has made
  phase,          \* where runParallel itself is
  inFlight,       \* operations invoked and not yet settled
  opCalls,        \* the arguments operation() was invoked with, in order
  progressCalls,  \* the arguments onProgress was invoked with, in order
  cancelPolls,    \* <<answer of shouldCancel(), cursor then>> of each call, in order
  cancelAt,       \* cursor value when shouldCancel first answered true, or -1
  withdrawn,      \* shouldCancel went back from true to false at some point
  racing,         \* per worker: its operation awaits Promise.race([shell, timer])
  subprocs,       \* indices whose subprocess was started and has not exited
  timedOut,       \* indices whose operation was reported as timed out
  gFn,            \* which function of git.ts is called
  gOpts,          \* its options: create, includeUntracked, shallow
  gTimeoutMs,     \* what getTimeout() returns
  gStatus,        \* what getRepoStatus() returned to it (pull, clean)
  gPc,            \* where the call is
  gRan,           \* the subprocesses it has started, in order
  gRunning,       \* its latest subprocess has not exited yet
  gFailure,       \* the failure texts it was given (stderr, error message)
  gExits,         \* what its awaited subprocesses exited with, in order
  gTimedOut,      \* the deadline of runWithTimeout expired first
  gLateExit,      \* exit codes of the subprocess after the deadline
  gLateTimer,     \* the timer fired after the subprocess had completed
  gOutcome,       \* the value it returned, if it has returned
  repo,           \* the repository getRepoStatus looks at
  failing,        \* the introspection subprocesses that fail on it
  sPc,            \* where the call of getRepoStatus is
  sLocal,         \* its locals: branch, the counters, hasUpstream
  sRan,           \* the subprocesses the current call has started
  sReturned,      \* the statuses returned so far
  cOptions,       \* CleanApp: props.options
  cOnComplete,    \* whether props.onComplete was passed
  cRepoState,     \* the repositories under basePath
  cPhase,         \* useState phase
  cDirty,         \* useState dirtyRepos
  cIsDryRun,      \* useState isDryRun
  cCancelled,     \* cancelledRef.current
  cError,         \* useState error is set
  cFinds,         \* findDirtyRepos calls under way, by captured isDryRun
  cRuns,          \* runCleanup calls under way: their list and position
  cExitPending,   \* the process.exit timer is set
  cExited,        \* the component is gone
  cEvent,         \* who ran last: handleConfirm, other user input, async
  cEntered,       \* the last handler rendered a new cleaning phase
  cCalled,        \* the repository the last handler called cleanRepo on
  cProceeded,     \* the user chose the live run under the preview
  kOptions,       \* CloneApp: props.options
  kOnComplete,    \* whether props.onComplete was passed
  kActive,        \* how many active repositories listRepos will give
  kDirs,          \* the repository directories that exist
  kPhase,         \* useState phase
  kRepos,         \* useState repos (its length; 0 is the empty list)
  kIsDryRun,      \* useState isDryRun
  kRunKey,        \* useState runKey
  kCancelled,     \* cancelledRef.current
  kError,         \* useState error is set
  kRunA,          \* where run() of the first effect is
  kPools,         \* the runCloneOperations calls under way
  kHanded,        \* how often each repository was handed to an operation
  kExitPending,   \* the process.exit timer is set
  kExited,        \* the component is gone
  drv             \* a driver's inline worker loop run beside runParallel

poolVars == <<items, concurrency, hasOnProgress, shouldCancel, results,
              completed, index, cancelled, pc, currentIndex, item, result,
              started, phase, inFlight, opCalls, progressCalls, cancelPolls,
              cancelAt, withdrawn>>

\* the state of the timeout-wrapped subprocess calls (runWithTimeout)
wrapper == <<racing, subprocs, timedOut>>

\* one call of a function of git.ts
git == <<gFn, gOpts, gTimeoutMs, gStatus, gPc, gRan, gRunning, gFailure,
         gExits, gTimedOut, gLateExit, gOutcome, gLateTimer>>

\* getRepoStatus
prober == <<repo, failing, sPc, sLocal, sRan, sReturned>>

\* CleanApp
cleaner == <<cOptions, cOnComplete, cRepoState, cPhase, cDirty, cIsDryRun,
             cCancelled, cError, cFinds, cRuns, cExitPending, cExited,
             cEvent, cEntered, cCalled, cProceeded>>

\* CloneApp
cloner == <<kOptions, kOnComplete, kActive, kDirs, kPhase, kRepos, kIsDryRun,
            kRunKey, kCancelled, kError, kRunA, kPools, kHanded,
            kExitPending, kExited>>

vars == <<poolVars, wrapper, git, prober, cleaner, cloner, drv>>

params == <<items, concurrency, hasOnProgress>>
predicate == <<shouldCancel, cancelAt, withdrawn>>

\* ------------------------------------------------------------- helpers
Min(a, b) == IF a < b THEN a ELSE b

SetMax(S) == CHOOSE m \in S : \A x \in S : x <= m

Range(s) == {s[k] : k \in 1..Len(s)}

\* items[i] with JavaScript's 0-based index
ItemAt(its, i) == its[i + 1]

\* the caller-supplied operation(item, index): the doubling of the test suite
Operation(it, i) == it * 2

\* results.length of a sparse JavaScript array
ArrayLength(arr) == IF DOMAIN arr = {} THEN 0 ELSE SetMax(DOMAIN arr) + 1

\* results[i] = v
ArraySet(arr, i, v) ==
  [k \in (DOMAIN arr) \cup {i} |-> IF k = i THEN v ELSE arr[k]]

\* Array(Math.min(concurrency, items.length))
WorkerCountAll(c, n) == n
WorkerCountUnclamped(c, n) == c
WorkerCount(c, n) == Min(c, n)

\* while (index < items.length)
MoreItemsShort(i, n) == i < n - 1
MoreItems(i, n) == i < n

\* if (shouldCancel?.())
CancelRequestedNever(flag) == FALSE
CancelRequested(flag) == flag

\* index++  (the value the cursor gets)
NextCursorStuck(i) == i
NextCursorSkips(i) == i + 2
NextCursor(i) == i + 1

\* results[currentIndex] = result  (the slot written)
ResultSlotNext(ci, cursor) == ci + 1
ResultSlotCursor(ci, cursor) == cursor - 1
ResultSlot(ci, cursor) == ci

\* completed++
NextCompletedNone(c) == c
NextCompletedTwice(c) == c + 2
NextCompleted(c) == c + 1

\* onProgress?.(completed, items.length)  (the arguments passed)
ProgressArgsRemaining(c, its) == <<c, Len(its) - c>>
ProgressArgs(c, its) == <<c, Len(its)>>

Workers == 1..WorkerCount(concurrency, Len(items))

\* ----------------------------------------------------------------- Init
\* no function of git.ts has been called
GitIdle ==
  /\ gFn = "none"
  /\ gOpts = [create |-> FALSE, includeUntracked |-> FALSE, shallow |-> FALSE]
  /\ gTimeoutMs = 0
  /\ gStatus = [modified |-> 0, staged |-> 0, untracked |-> 0, deleted |-> 0,
                hasUpstream |-> FALSE]
  /\ gPc = "idle"
  /\ gRan = <<>>
  /\ gRunning = FALSE
  /\ gFailure = <<>>
  /\ gExits = <<>>
  /\ gTimedOut = FALSE
  /\ gLateExit = <<>>
  /\ gLateTimer = FALSE
  /\ gOutcome = <<>>

\* getRepoStatus has not been called
ProbeIdle ==
  /\ repo = [branch |-> <<"\n">>, porcelain |-> <<>>, upstream |-> FALSE,
             onlyUpstream |-> 0, onlyHead |-> 0]
  /\ failing = {}
  /\ sPc = "idle"
  /\ sLocal = [branch |-> <<>>, modified |-> 0, staged |-> 0, untracked |-> 0,
               deleted |-> 0, ahead |-> 0, behind |-> 0,
               hasUpstream |-> FALSE]
  /\ sRan = <<>>
  /\ sReturned = <<>>

\* CleanApp is not mounted
CleanIdle ==
  /\ cOptions = [dryRun |-> FALSE, interactive |-> FALSE, force |-> FALSE,
                 all |-> FALSE]
  /\ cOnComplete = FALSE
  /\ cRepoState = <<>>
  /\ cPhase = "finding"
  /\ cDirty = <<>>
  /\ cIsDryRun = FALSE
  /\ cCancelled = FALSE
  /\ cError = FALSE
  /\ cFinds = [b \in BOOLEAN |-> 0]
  /\ cRuns = <<>>
  /\ cExitPending = FALSE
  /\ cExited = TRUE
  /\ cEvent = "none"
  /\ cEntered = FALSE
  /\ cCalled = 0
  /\ cProceeded = FALSE

\* CloneApp is not mounted
CloneIdle ==
  /\ kOptions = [dryRun |-> FALSE, interactive |-> FALSE, parallel |-> 1]
  /\ kOnComplete = FALSE
  /\ kActive = 0
  /\ kDirs = {}
  /\ kPhase = "checking"
  /\ kRepos = 0
  /\ kIsDryRun = FALSE
  /\ kRunKey = 0
  /\ kCancelled = FALSE
  /\ kError = FALSE
  /\ kRunA = "idle"
  /\ kPools = <<>>
  /\ kHanded = <<>>
  /\ kExitPending = FALSE
  /\ kExited = TRUE

\* no driver loop runs
LoopIdle == drv = <<>>

PoolInit ==
  /\ items \in ItemLists
  /\ concurrency \in 0..MaxConcurrency
  /\ hasOnProgress \in BOOLEAN
  /\ shouldCancel \in BOOLEAN
  /\ results = <<>>
  /\ completed = 0
  /\ index = 0
  /\ cancelled = FALSE
  /\ pc = [w \in WorkerIds |-> "unstarted"]
  /\ currentIndex = [w \in WorkerIds |-> -1]
  /\ item = [w \in WorkerIds |-> 0]
  /\ result = [w \in WorkerIds |-> 0]
  /\ started = 0
  /\ phase = "starting"
  /\ inFlight = 0
  /\ opCalls = <<>>
  /\ progressCalls = <<>>
  /\ cancelPolls = <<>>
  /\ cancelAt = IF shouldCancel THEN 0 ELSE -1
  /\ withdrawn = FALSE
  /\ racing = [w \in WorkerIds |-> FALSE]
  /\ subprocs = {}
  /\ timedOut = {}

\* runParallel is never called
PoolIdle ==
  /\ PoolInit
  /\ items = <<>> /\ concurrency = 0 /\ ~hasOnProgress /\ ~shouldCancel

Init ==
  PoolInit /\ GitIdle /\ ProbeIdle /\ CleanIdle /\ CloneIdle /\ LoopIdle

\* ------------------------------------------------- the body of runNext
\* One pass from the loop test to the next suspension: the worker returns
\* (loop over, or cancel seen), or claims the next index and invokes the
\* operation, whose promise it then awaits.
LoopHeadPollFirst(w) ==
  /\ cancelPolls' = Append(cancelPolls, <<shouldCancel, index>>)
  /\ IF shouldCancel
     THEN /\ cancelled' = TRUE
          /\ pc' = [pc EXCEPT ![w] = "done"]
          /\ UNCHANGED <<index, currentIndex, item, inFlight, opCalls>>
     ELSE IF index < Len(items)
          THEN /\ index' = index + 1
               /\ currentIndex' = [currentIndex EXCEPT ![w] = index]
               /\ item' = [item EXCEPT ![w] = ItemAt(items, index)]
               /\ opCalls' = Append(opCalls, <<ItemAt(items, index), index>>)
               /\ inFlight' = inFlight + 1
               /\ pc' = [pc EXCEPT ![w] = "awaiting"]
               /\ UNCHANGED cancelled
          ELSE /\ pc' = [pc EXCEPT ![w] = "done"]
               /\ UNCHANGED <<index, cancelled, currentIndex, item, inFlight,
                              opCalls>>

LoopHead(w) ==
  IF MoreItems(index, Len(items))
  THEN /\ cancelPolls' = Append(cancelPolls, <<shouldCancel, index>>)
       /\ IF CancelRequested(shouldCancel)
          THEN /\ cancelled' = TRUE
               /\ pc' = [pc EXCEPT ![w] = "done"]
               /\ UNCHANGED <<index, currentIndex, item, inFlight, opCalls>>
          ELSE /\ index' = NextCursor(index)
               /\ currentIndex' = [currentIndex EXCEPT ![w] = index]
               /\ item' = [item EXCEPT ![w] = ItemAt(items, index)]
               /\ opCalls' = Append(opCalls, <<ItemAt(items, index), index>>)
               /\ inFlight' = inFlight + 1
               /\ pc' = [pc EXCEPT ![w] = "awaiting"]
               /\ UNCHANGED cancelled
  ELSE /\ pc' = [pc EXCEPT ![w] = "done"]
       /\ UNCHANGED <<index, cancelled, currentIndex, item, inFlight, opCalls,
                      cancelPolls>>

\* .map(() => runNext()) : the next worker runs up to its first await
StartWorker ==
  /\ phase = "starting"
  /\ started < WorkerCount(concurrency, Len(items))
  /\ started' = started + 1
  /\ LoopHead(started + 1)
  /\ UNCHANGED <<params, wrapper, git, prober, cleaner, cloner, predicate, results, completed, result, phase,
                 progressCalls>>

\* await Promise.all(workers) : runParallel suspends
AwaitAll ==
  /\ phase = "starting"
  /\ started = WorkerCount(concurrency, Len(items))
  /\ phase' = "awaiting"
  /\ UNCHANGED <<params, wrapper, git, prober, cleaner, cloner, predicate, results, completed, index, cancelled,
                 pc, currentIndex, item, result, started, inFlight,
                 opCalls, progressCalls, cancelPolls>>

\* the promise of operation(item, currentIndex) resolves with its value
SettleResolve(w) ==
  /\ pc[w] = "awaiting"
  /\ pc' = [pc EXCEPT ![w] = "resolved"]
  /\ result' = [result EXCEPT ![w] = Operation(item[w], currentIndex[w])]
  /\ inFlight' = inFlight - 1
  /\ UNCHANGED <<params, wrapper, git, prober, cleaner, cloner, predicate, results, completed, index, cancelled,
                 currentIndex, item, started, phase, opCalls,
                 progressCalls, cancelPolls>>

\* the promise of operation(item, currentIndex) rejects (the operation threw)
SettleReject(w) ==
  /\ pc[w] = "awaiting"
  /\ pc' = [pc EXCEPT ![w] = "threw"]
  /\ inFlight' = inFlight - 1
  /\ UNCHANGED <<params, wrapper, git, prober, cleaner, cloner, predicate, results, completed, index, cancelled,
                 currentIndex, item, result, started, phase, opCalls,
                 progressCalls, cancelPolls>>

\* the worker continues after `await operation(...)` with the value
ResumeResolvedDropOnCancel(w) ==
  /\ phase # "starting"
  /\ pc[w] = "resolved"
  /\ IF shouldCancel
     THEN /\ cancelled' = TRUE
          /\ pc' = [pc EXCEPT ![w] = "done"]
          /\ UNCHANGED <<results, completed, progressCalls, index,
                         currentIndex, item, inFlight, opCalls, cancelPolls>>
     ELSE /\ results' = ArraySet(results, currentIndex[w], result[w])
          /\ completed' = completed + 1
          /\ progressCalls' = IF hasOnProgress
                              THEN Append(progressCalls,
                                          <<completed + 1, Len(items)>>)
                              ELSE progressCalls
          /\ LoopHead(w)
  /\ UNCHANGED <<params, wrapper, git, prober, cleaner, cloner, predicate, result, started, phase>>

ResumeResolved(w) ==
  /\ phase # "starting"
  /\ pc[w] = "resolved"
  /\ results' = ArraySet(results, ResultSlot(currentIndex[w], index), result[w])
  /\ completed' = NextCompleted(completed)
  /\ progressCalls' = IF hasOnProgress
                      THEN Append(progressCalls,
                                  ProgressArgs(NextCompleted(completed), items))
                      ELSE progressCalls
  /\ LoopHead(w)
  /\ UNCHANGED <<params, wrapper, git, prober, cleaner, cloner, predicate, result, started, phase>>

\* the worker continues after `await operation(...)` with the exception:
\* nothing catches it, the promise of runNext() rejects
ResumeThrew(w) ==
  /\ phase # "starting"
  /\ pc[w] = "threw"
  /\ pc' = [pc EXCEPT ![w] = "failed"]
  /\ UNCHANGED <<params, wrapper, git, prober, cleaner, cloner, predicate, results, completed, index, cancelled,
                 currentIndex, item, result, started, phase, inFlight,
                 opCalls, progressCalls, cancelPolls>>

\* await Promise.all(workers)
AllSettledEveryId(p, W) == \A w \in WorkerIds : p[w] = "done"
AllSettledAny(p, W) == \E w \in W : p[w] = "done"
AllSettledOrFailed(p, W) == \A w \in W : p[w] \in {"done", "failed"}
AllSettled(p, W) == \A w \in W : p[w] = "done"

\* return { results, cancelled }
Return ==
  /\ phase = "awaiting"
  /\ AllSettled(pc, Workers)
  /\ phase' = "returned"
  /\ UNCHANGED <<params, wrapper, git, prober, cleaner, cloner, predicate, results, completed, index, cancelled,
                 pc, currentIndex, item, result, started, inFlight,
                 opCalls, progressCalls, cancelPolls>>

\* Promise.all rejects with the first worker failure; the other workers are
\* not stopped
Reject ==
  /\ phase = "awaiting"
  /\ \E w \in Workers : pc[w] = "failed"
  /\ phase' = "rejected"
  /\ UNCHANGED <<params, wrapper, git, prober, cleaner, cloner, predicate, results, completed, index, cancelled,
                 pc, currentIndex, item, result, started, inFlight,
                 opCalls, progressCalls, cancelPolls>>

\* the caller's predicate starts answering true
CancelOn ==
  /\ phase # "returned"
  /\ ~shouldCancel
  /\ shouldCancel' = TRUE
  /\ cancelAt' = IF cancelAt = -1 THEN index ELSE cancelAt
  /\ UNCHANGED <<params, wrapper, git, prober, cleaner, cloner, results, completed, index, cancelled, pc,
                 currentIndex, item, result, started, phase, inFlight,
                 opCalls, progressCalls, cancelPolls, withdrawn>>

\* the caller's predicate goes back to answering false
CancelOff ==
  /\ phase # "returned"
  /\ shouldCancel
  /\ shouldCancel' = FALSE
  /\ withdrawn' = TRUE
  /\ UNCHANGED <<params, wrapper, git, prober, cleaner, cloner, results, completed, index, cancelled, pc,
                 currentIndex, item, result, started, phase, inFlight,
                 opCalls, progressCalls, cancelPolls, cancelAt>>

Next ==
  /\ \/ StartWorker
     \/ AwaitAll
     \/ \E w \in Workers : SettleResolve(w)
     \/ \E w \in Workers : SettleReject(w)
     \/ \E w \in Workers : ResumeResolved(w)
     \/ \E w \in Workers : ResumeThrew(w)
     \/ Return
     \/ Reject
     \/ CancelOn
     \/ CancelOff
  /\ UNCHANGED drv

Spec == Init /\ [][Next]_vars

\* A run in which no operation throws and every operation that was started
\* completes: a pending promise settles, and the event loop runs every
\* continuation that is ready.
LiveNext ==
  /\ \/ StartWorker
     \/ AwaitAll
     \/ \E w \in Workers : SettleResolve(w)
     \/ \E w \in Workers : ResumeResolved(w)
     \/ Return
     \/ CancelOn
     \/ CancelOff
  /\ UNCHANGED drv

LiveSpec ==
  /\ Init
  /\ [][LiveNext]_vars
  /\ WF_vars(StartWorker /\ UNCHANGED drv)
  /\ WF_vars(AwaitAll /\ UNCHANGED drv)
  /\ \A w \in WorkerIds : WF_vars(SettleResolve(w) /\ UNCHANGED drv)
  /\ \A w \in WorkerIds : WF_vars(ResumeResolved(w) /\ UNCHANGED drv)
  /\ WF_vars(Return /\ UNCHANGED drv)

\* --------------------------------- the pool over timeout-wrapped operations
\* The operation passed to the pool is one subprocess call wrapped by
\* runWithTimeout, as in fetchRepo and cloneRepo: after `await getTimeout()`
\* it starts the subprocess and the deadline timer and awaits their race;
\* every failure is caught and returned as a value, so it never throws.

\* the outcome value an operation returns when its deadline expired first
TimedOutResult == 0

TimeoutInit ==
  /\ Init
  /\ ~shouldCancel
  /\ ~hasOnProgress

\* await runWithTimeout($`git ...`.quiet().nothrow(), timeout): the subprocess
\* and the timer are started, the operation awaits Promise.race
SpawnNoAwait(w) ==
  /\ phase # "starting"
  /\ pc[w] = "awaiting"
  /\ ~racing[w]
  /\ subprocs' = subprocs \cup {currentIndex[w]}
  /\ pc' = [pc EXCEPT ![w] = "resolved"]
  /\ result' = [result EXCEPT ![w] = Operation(item[w], currentIndex[w])]
  /\ inFlight' = inFlight - 1
  /\ UNCHANGED <<drv, params, git, prober, cleaner, cloner, predicate, results, completed, index, cancelled,
                 currentIndex, item, started, phase, opCalls, progressCalls,
                 cancelPolls, racing, timedOut>>

Spawn(w) ==
  /\ phase # "starting"
  /\ pc[w] = "awaiting"
  /\ ~racing[w]
  /\ racing' = [racing EXCEPT ![w] = TRUE]
  /\ subprocs' = subprocs \cup {currentIndex[w]}
  /\ UNCHANGED <<drv, poolVars, git, prober, cleaner, cloner, timedOut>>

\* the subprocess exits before the deadline: the race resolves with its
\* result and the operation returns the outcome built from it
ProcExit(w) ==
  /\ pc[w] = "awaiting"
  /\ racing[w]
  /\ racing' = [racing EXCEPT ![w] = FALSE]
  /\ subprocs' = subprocs \ {currentIndex[w]}
  /\ pc' = [pc EXCEPT ![w] = "resolved"]
  /\ result' = [result EXCEPT ![w] = Operation(item[w], currentIndex[w])]
  /\ inFlight' = inFlight - 1
  /\ UNCHANGED <<drv, params, git, prober, cleaner, cloner, predicate, results, completed, index, cancelled,
                 currentIndex, item, started, phase, opCalls, progressCalls,
                 cancelPolls, timedOut>>

\* the timer fires first: the race rejects with GitTimeoutError, the catch
\* block returns the error outcome; nothing stops the subprocess
DeadlineKills(w) ==
  /\ pc[w] = "awaiting"
  /\ racing[w]
  /\ racing' = [racing EXCEPT ![w] = FALSE]
  /\ timedOut' = timedOut \cup {currentIndex[w]}
  /\ subprocs' = subprocs \ {currentIndex[w]}
  /\ pc' = [pc EXCEPT ![w] = "resolved"]
  /\ result' = [result EXCEPT ![w] = TimedOutResult]
  /\ inFlight' = inFlight - 1
  /\ UNCHANGED <<drv, params, git, prober, cleaner, cloner, predicate, results, completed, index, cancelled,
                 currentIndex, item, started, phase, opCalls, progressCalls,
                 cancelPolls>>

Deadline(w) ==
  /\ pc[w] = "awaiting"
  /\ racing[w]
  /\ racing' = [racing EXCEPT ![w] = FALSE]
  /\ timedOut' = timedOut \cup {currentIndex[w]}
  /\ pc' = [pc EXCEPT ![w] = "resolved"]
  /\ result' = [result EXCEPT ![w] = TimedOutResult]
  /\ inFlight' = inFlight - 1
  /\ UNCHANGED <<drv, params, git, prober, cleaner, cloner, predicate, results, completed, index, cancelled,
                 currentIndex, item, started, phase, opCalls, progressCalls,
                 cancelPolls, subprocs>>

\* a subprocess whose operation already timed out exits at last
AbandonedExit(i) ==
  /\ i \in subprocs
  /\ i \in timedOut
  /\ subprocs' = subprocs \ {i}
  /\ UNCHANGED <<drv, poolVars, git, prober, cleaner, cloner, racing, timedOut>>

TimeoutNext ==
  /\ \/ StartWorker
     \/ AwaitAll
     \/ \E w \in Workers : Spawn(w)
     \/ \E w \in Workers : ProcExit(w)
     \/ \E w \in Workers : Deadline(w)
     \/ \E i \in 0..(Len(items) - 1) : AbandonedExit(i)
     \/ \E w \in Workers : ResumeResolved(w)
     \/ Return
  /\ UNCHANGED drv

TimeoutSpec == TimeoutInit /\ [][TimeoutNext]_vars

\* ------------------------------------------- one call of a git.ts function
\* Text is a sequence of words; "\n" is the line end git prints.
MaxCount == 1

GitFunctions == {"pull", "fetch", "clone", "clean", "checkout", "exec"}
TimeoutWrapped == {"pull", "fetch", "clone", "exec"}
NetworkFunctions == {"pull", "fetch", "clone"}

\* config.timeout values: below one second, between two seconds, the default
TimeoutChoices == {400, 1500, 30000}

ExitCodes == {0, 1, 128}

Branch == "feat"

\* what getRepoStatus can hand to pullRepo and cleanRepo
Statuses ==
  [modified : 0..MaxCount, staged : 0..MaxCount, untracked : 0..MaxCount,
   deleted : 0..MaxCount, hasUpstream : BOOLEAN]

Stdouts ==
  { <<>>,
    <<"\n">>,
    <<"Already", "up", "to", "date", "\n">>,
    <<"Updating", "3", "files", "changed", "\n">>,
    <<"Fast-forward", "\n">> }

Stderrs ==
  { <<>>,
    <<"fatal", "unable", "to", "access", "Could", "not", "resolve", "host",
      "\n">>,
    <<"fatal", "unable", "to", "access", "Connection", "timed", "out", "\n">>,
    <<"error", "pathspec", "feat", "did", "not", "match", "any", "\n">>,
    <<"fatal", "a", "branch", "named", "feat", "already", "exists", "\n">>,
    <<"fatal", "pathspec", "feat", "already", "exists", "\n">>,
    <<"fatal", "not", "a", "git", "repository", "\n">> }

\* messages of errors the shell promise can reject with
ThrownMessages ==
  { <<"Could", "not", "resolve", "host">>,
    <<"Connection", "refused">>,
    <<"Network", "is", "unreachable">>,
    <<"No", "route", "to", "host">>,
    <<"unable", "to", "access">>,
    <<"unable", "to", "access", "Connection", "timed", "out">>,
    <<"ENOENT", "posix_spawn">> }

\* an optional field of a returned object: absent or present with a value
None == <<>>
Some(v) == <<v>>

\* String.prototype.toLowerCase, word by word
Lower(tok) ==
  CASE tok = "Could" -> "could"
    [] tok = "Connection" -> "connection"
    [] tok = "Network" -> "network"
    [] tok = "No" -> "no"
    [] tok = "Already" -> "already"
    [] OTHER -> tok

LowerText(t) == [k \in 1..Len(t) |-> Lower(t[k])]

\* String.prototype.includes
Includes(t, p) ==
  \E k \in 1..(Len(t) - Len(p) + 1) : SubSeq(t, k, k + Len(p) - 1) = p

\* a || b on strings: the empty string is falsy
OrElse(a, b) == IF a = <<>> THEN b ELSE a

\* String.prototype.trim
RECURSIVE TrimStart(_)
TrimStart(t) ==
  IF t # <<>> /\ Head(t) = "\n" THEN TrimStart(Tail(t)) ELSE t

RECURSIVE TrimEnd(_)
TrimEnd(t) ==
  IF t # <<>> /\ t[Len(t)] = "\n"
  THEN TrimEnd(SubSeq(t, 1, Len(t) - 1))
  ELSE t

Trim(t) == TrimEnd(TrimStart(t))

\* Math.round(timeoutMs / 1000)
RoundSeconds(ms) == (ms + 500) \div 1000

\* new GitTimeoutError(`timed out after ${Math.round(timeoutMs / 1000)}s`)
GitTimeoutError(ms) ==
  [name |-> "GitTimeoutError",
   message |-> <<"timed", "out", "after", ToString(RoundSeconds(ms)), "s">>]

\* an Error the shell promise rejected with
ShellError(msg) == [name |-> "Error", message |-> msg]

IsTimeoutError(e) ==
  \/ e.name = "GitTimeoutError"
  \/ Includes(LowerText(e.message), <<"timed", "out">>)

ConnectionPhrases ==
  { <<"could", "not", "resolve", "host">>,
    <<"connection", "refused">>,
    <<"network", "is", "unreachable">>,
    <<"no", "route", "to", "host">>,
    <<"unable", "to", "access">> }

IsConnectionError(e) ==
  \E p \in ConnectionPhrases : Includes(LowerText(e.message), p)

FormatNetworkError(e, operation) ==
  IF IsTimeoutError(e) THEN <<operation>> \o e.message
  ELSE IF IsConnectionError(e)
       THEN <<operation, "failed", "connection", "error">>
       ELSE e.message

\* a RepoOperationResult (name left out)
Outcome(success, message, details, error) ==
  [success |-> success, message |-> message, details |-> details,
   error |-> error]

Skipped(reason) == Outcome(FALSE, "skipped", None, Some(reason))
Failed(text) == Outcome(FALSE, "error", None, Some(text))

UncommittedChanges == <<"Has", "uncommitted", "changes">>
NoUpstream == <<"No", "upstream", "configured">>

\* pullRepo's test before the subprocess
HasUncommitted(st) == st.modified > 0 \/ st.staged > 0

\* output.match(/(\d+) file/): the number in front of the first "file"
IsNumber(tok) == tok \in {ToString(n) : n \in 0..9}
IsFileWord(tok) == tok \in {"file", "files"}
FileMatches(t) ==
  {k \in 1..(Len(t) - 1) : IsNumber(t[k]) /\ IsFileWord(t[k + 1])}
FileCount(t) ==
  IF FileMatches(t) = {} THEN "some"
  ELSE t[CHOOSE k \in FileMatches(t) : \A j \in FileMatches(t) : k <= j]

\* the first argument of formatNetworkError
OperationName(fn) ==
  CASE fn = "pull" -> "Pull" [] fn = "fetch" -> "Fetch"
    [] fn = "clone" -> "Clone"

PullResult(exitCode, stdout) ==
  IF exitCode # 0 THEN Failed(OrElse(stdout, <<"Pull", "failed">>))
  ELSE IF Includes(stdout, <<"Already", "up", "to", "date">>)
       THEN Outcome(TRUE, "up-to-date", None, None)
       ELSE Outcome(TRUE, "updated",
                    Some(<<FileCount(stdout), "file(s)", "changed">>), None)

FetchResult(exitCode, stdout, stderr) ==
  IF exitCode # 0
  THEN Failed(OrElse(OrElse(stdout, stderr), <<"Fetch", "failed">>))
  ELSE Outcome(TRUE, "fetched", None, None)

CloneResult(shallow, exitCode, stdout, stderr) ==
  IF exitCode # 0
  THEN Failed(OrElse(OrElse(stdout, stderr), <<"Clone", "failed">>))
  ELSE Outcome(TRUE, "cloned",
               IF shallow THEN Some(<<"shallow">>) ELSE None, None)

CheckoutResultExistsFirst(create, exitCode, stdout, stderr) ==
  LET output == OrElse(stdout, stderr) IN
  IF exitCode # 0
  THEN IF Includes(output, <<"already", "exists">>)
       THEN Outcome(FALSE, "exists", None,
                    Some(<<"Branch", Branch, "already", "exists">>))
       ELSE IF \/ Includes(output, <<"did", "not", "match", "any">>)
               \/ Includes(output, <<"pathspec">>)
            THEN Outcome(FALSE, "not found", None,
                         Some(<<"Branch", Branch, "not", "found">>))
            ELSE Failed(OrElse(output, <<"Checkout", "failed">>))
  ELSE Outcome(TRUE, IF create THEN "created" ELSE "switched",
               Some(<<"->", Branch>>), None)
CheckoutResult(create, exitCode, stdout, stderr) ==
  LET output == OrElse(stdout, stderr) IN
  IF exitCode # 0
  THEN IF \/ Includes(output, <<"did", "not", "match", "any">>)
          \/ Includes(output, <<"pathspec">>)
       THEN Outcome(FALSE, "not found", None,
                    Some(<<"Branch", Branch, "not", "found">>))
       ELSE IF Includes(output, <<"already", "exists">>)
            THEN Outcome(FALSE, "exists", None,
                         Some(<<"Branch", Branch, "already", "exists">>))
            ELSE Failed(OrElse(output, <<"Checkout", "failed">>))
  ELSE Outcome(TRUE, IF create THEN "created" ELSE "switched",
               Some(<<"->", Branch>>), None)

\* an ExecResult (name left out)
ExecResultErrorAlways(exitCode, stdout, stderr) ==
  [success |-> exitCode = 0, exitCode |-> exitCode,
   output |-> OrElse(Trim(stdout), Trim(stderr)),
   error |-> Some(OrElse(Trim(stderr), Trim(stdout)))]
ExecResult(exitCode, stdout, stderr) ==
  [success |-> exitCode = 0, exitCode |-> exitCode,
   output |-> OrElse(Trim(stdout), Trim(stderr)),
   error |-> IF exitCode # 0
             THEN Some(OrElse(Trim(stderr), Trim(stdout)))
             ELSE None]

\* cleanRepo: a step exited with a non-zero code
CleanStepFailed(stdout, stderr, fallback) ==
  Failed(OrElse(OrElse(Trim(stderr), Trim(stdout)), fallback))

TotalChanges(st) == st.modified + st.staged + st.deleted

WantsUntrackedAlways(opts, st) == st.untracked > 0
WantsUntracked(opts, st) == opts.includeUntracked /\ st.untracked > 0

\* cleanRepo: the return after the steps
CleanResultIgnoresRemoved(filesReverted, filesRemoved) ==
  IF filesReverted = 0
  THEN Outcome(TRUE, "already clean", None, None)
  ELSE Outcome(TRUE, "cleaned",
         Some(<<ToString(filesReverted), "reverted">>), None)
CleanResult(filesReverted, filesRemoved) ==
  IF filesReverted = 0 /\ filesRemoved = 0
  THEN Outcome(TRUE, "already clean", None, None)
  ELSE Outcome(TRUE, "cleaned",
         Some((IF filesReverted > 0
               THEN <<ToString(filesReverted), "reverted">> ELSE <<>>)
              \o (IF filesReverted > 0 /\ filesRemoved > 0
                  THEN <<",">> ELSE <<>>)
              \o (IF filesRemoved > 0
                  THEN <<ToString(filesRemoved), "removed">> ELSE <<>>)),
         None)

\* the catch block of each function
Caught(fn, e) ==
  CASE fn \in NetworkFunctions ->
         Failed(FormatNetworkError(e, OperationName(fn)))
    [] fn \in {"clean", "checkout"} -> Failed(e.message)
    [] fn = "exec" ->
         [success |-> FALSE, exitCode |-> 1, output |-> <<>>,
          error |-> Some(e.message)]

\* the subprocess each function awaits first when it has no probe to make
FirstStep(fn) ==
  CASE fn = "fetch" -> "fetch" [] fn = "clone" -> "clone"
    [] fn = "checkout" -> "checkout" [] fn = "exec" -> "sh"

GitInit ==
  /\ PoolIdle
  /\ ProbeIdle
  /\ CleanIdle
  /\ CloneIdle
  /\ LoopIdle
  /\ gFn \in GitFunctions
  /\ gOpts \in [create : BOOLEAN, includeUntracked : BOOLEAN,
                shallow : BOOLEAN]
  /\ gOpts.create => gFn = "checkout"
  /\ gOpts.includeUntracked => gFn = "clean"
  /\ gOpts.shallow => gFn = "clone"
  /\ gTimeoutMs \in (IF gFn \in TimeoutWrapped THEN TimeoutChoices ELSE {0})
  /\ gStatus = [modified |-> 0, staged |-> 0, untracked |-> 0, deleted |-> 0,
                hasUpstream |-> FALSE]
  /\ gPc = "called"
  /\ gRan = <<>>
  /\ gRunning = FALSE
  /\ gFailure = <<>>
  /\ gExits = <<>>
  /\ gTimedOut = FALSE
  /\ gLateExit = <<>>
  /\ gLateTimer = FALSE
  /\ gOutcome = <<>>

\* the function starts a subprocess and awaits it
Start(step) ==
  /\ gRan' = Append(gRan, step)
  /\ gRunning' = TRUE
  /\ gPc' = "awaiting"
  /\ UNCHANGED gOutcome

\* the function returns
GitReturn(outcome) ==
  /\ gOutcome' = Some(outcome)
  /\ gPc' = "returned"

\* entry up to the first await: pull and clean probe the status first
GitCall ==
  /\ gPc = "called"
  /\ IF gFn \in {"pull", "clean"}
     THEN gPc' = "probing" /\ UNCHANGED <<gRan, gRunning, gOutcome>>
     ELSE Start(FirstStep(gFn))
  /\ UNCHANGED <<drv, poolVars, wrapper, prober, cleaner, cloner, gLateTimer, gFn, gOpts, gTimeoutMs, gStatus, gFailure,
                 gExits, gTimedOut, gLateExit>>

\* getRepoStatus has answered
GitProbed(st) ==
  /\ gPc = "probing"
  /\ gStatus' = st
  /\ IF gFn = "pull"
     THEN IF HasUncommitted(st)
          THEN GitReturn(Skipped(UncommittedChanges))
               /\ UNCHANGED <<gRan, gRunning>>
          ELSE IF ~st.hasUpstream
               THEN GitReturn(Skipped(NoUpstream))
                    /\ UNCHANGED <<gRan, gRunning>>
               ELSE Start("pull")
     ELSE IF TotalChanges(st) > 0
          THEN Start("reset")
          ELSE IF WantsUntracked(gOpts, st)
               THEN Start("clean")
               ELSE GitReturn(CleanResult(0, 0))
                    /\ UNCHANGED <<gRan, gRunning>>
  /\ UNCHANGED <<drv, poolVars, wrapper, prober, cleaner, cloner, gLateTimer, gFn, gOpts, gTimeoutMs, gFailure,
                 gExits, gTimedOut, gLateExit>>

\* the awaited subprocess exits
GitExit(exitCode, stdout, stderr) ==
  LET step == gRan[Len(gRan)] IN
  /\ gPc = "awaiting" /\ gRunning
  /\ gFailure' = IF exitCode # 0 THEN Append(gFailure, stderr) ELSE gFailure
  /\ gExits' = Append(gExits, [step |-> step, exitCode |-> exitCode,
                                stdout |-> stdout, stderr |-> stderr])
  /\ CASE step = "pull" ->
            GitReturn(PullResult(exitCode, stdout))
            /\ gRunning' = FALSE /\ UNCHANGED gRan
       [] step = "fetch" ->
            GitReturn(FetchResult(exitCode, stdout, stderr))
            /\ gRunning' = FALSE /\ UNCHANGED gRan
       [] step = "clone" ->
            GitReturn(CloneResult(gOpts.shallow, exitCode, stdout, stderr))
            /\ gRunning' = FALSE /\ UNCHANGED gRan
       [] step = "checkout" ->
            GitReturn(CheckoutResult(gOpts.create, exitCode, stdout, stderr))
            /\ gRunning' = FALSE /\ UNCHANGED gRan
       [] step = "sh" ->
            GitReturn(ExecResult(exitCode, stdout, stderr))
            /\ gRunning' = FALSE /\ UNCHANGED gRan
       [] step = "reset" ->
            IF exitCode # 0
            THEN GitReturn(CleanStepFailed(stdout, stderr,
                             <<"Failed", "to", "reset", "changes">>))
                 /\ gRunning' = FALSE /\ UNCHANGED gRan
            ELSE IF WantsUntracked(gOpts, gStatus)
                 THEN Start("clean")
                 ELSE GitReturn(CleanResult(TotalChanges(gStatus), 0))
                      /\ gRunning' = FALSE /\ UNCHANGED gRan
       [] step = "clean" ->
            /\ gRunning' = FALSE /\ UNCHANGED gRan
            /\ IF exitCode # 0
               THEN GitReturn(CleanStepFailed(stdout, stderr,
                      <<"Failed", "to", "clean", "untracked", "files">>))
               ELSE GitReturn(CleanResult(
                      IF "reset" \in Range(gRan)
                      THEN TotalChanges(gStatus) ELSE 0,
                      gStatus.untracked))
  /\ UNCHANGED <<drv, poolVars, wrapper, prober, cleaner, cloner, gLateTimer, gFn, gOpts, gTimeoutMs, gStatus,
                 gTimedOut, gLateExit>>

\* the shell promise rejects: the catch block runs
GitThrow(msg) ==
  /\ gPc = "awaiting" /\ gRunning
  /\ gRunning' = FALSE
  /\ gFailure' = Append(gFailure, msg)
  /\ GitReturn(Caught(gFn, ShellError(msg)))
  /\ UNCHANGED <<drv, poolVars, wrapper, prober, cleaner, cloner, gLateTimer, gFn, gOpts, gTimeoutMs, gStatus, gRan,
                 gExits, gTimedOut, gLateExit>>

\* the timer of runWithTimeout fires first: the race rejects, the catch
\* block runs, the subprocess goes on
GitDeadline ==
  /\ gPc = "awaiting" /\ gRunning
  /\ gFn \in TimeoutWrapped
  /\ gTimedOut' = TRUE
  /\ GitReturn(Caught(gFn, GitTimeoutError(gTimeoutMs)))
  /\ UNCHANGED <<drv, poolVars, wrapper, prober, cleaner, cloner, gLateTimer, gFn, gOpts, gTimeoutMs, gStatus, gRan,
                 gRunning, gFailure, gExits, gLateExit>>

\* the subprocess exits after the function has returned
GitLateExitReclassifies(exitCode) ==
  /\ gPc = "returned" /\ gRunning
  /\ gRunning' = FALSE
  /\ gLateExit' = Append(gLateExit, exitCode)
  /\ gOutcome' =
       Some(IF gFn = "exec" THEN ExecResult(exitCode, <<>>, <<>>)
            ELSE FetchResult(exitCode, <<>>, <<>>))
  /\ UNCHANGED <<drv, poolVars, wrapper, prober, cleaner, cloner, gLateTimer, gFn, gOpts, gTimeoutMs, gStatus, gPc,
                 gRan, gFailure, gExits, gTimedOut>>
GitLateExit(exitCode) ==
  /\ gPc = "returned" /\ gRunning
  /\ gRunning' = FALSE
  /\ gLateExit' = Append(gLateExit, exitCode)
  /\ UNCHANGED <<drv, poolVars, wrapper, prober, cleaner, cloner, gLateTimer, gFn, gOpts, gTimeoutMs, gStatus, gPc,
                 gRan, gFailure, gExits, gTimedOut, gOutcome>>

\* the timer of runWithTimeout, which nothing clears, fires after the race
\* was settled by the subprocess: its reject() meets a settled race
GitLateTimerRejects ==
  /\ gPc = "returned" /\ ~gRunning
  /\ gFn \in TimeoutWrapped /\ gRan # <<>>
  /\ ~gTimedOut /\ ~gLateTimer
  /\ gLateTimer' = TRUE
  /\ gOutcome' = Some(Caught(gFn, GitTimeoutError(gTimeoutMs)))
  /\ UNCHANGED <<drv, poolVars, wrapper, prober, cleaner, cloner, gFn, gOpts, gTimeoutMs, gStatus, gPc,
                 gRan, gRunning, gFailure, gExits, gTimedOut, gLateExit>>
GitLateTimer ==
  /\ gPc = "returned" /\ ~gRunning
  /\ gFn \in TimeoutWrapped /\ gRan # <<>>
  /\ ~gTimedOut /\ ~gLateTimer
  /\ gLateTimer' = TRUE
  /\ UNCHANGED <<drv, poolVars, wrapper, prober, cleaner, cloner, gFn, gOpts, gTimeoutMs, gStatus, gPc,
                 gRan, gRunning, gFailure, gExits, gTimedOut, gLateExit,
                 gOutcome>>

GitNext ==
  \/ GitCall
  \/ \E st \in Statuses : GitProbed(st)
  \/ \E exitCode \in ExitCodes, stdout \in Stdouts, stderr \in Stderrs :
       GitExit(exitCode, stdout, stderr)
  \/ \E msg \in ThrownMessages : GitThrow(msg)
  \/ GitDeadline
  \/ \E exitCode \in ExitCodes : GitLateExit(exitCode)
  \/ GitLateTimer

GitSpec == GitInit /\ [][GitNext]_vars

\* --------------------------------------------------- getRepoStatus (probe)
\* A porcelain line is a sequence of characters; the list of a repository is
\* kept in the order of LineKinds (git status sorts by path, the counters do
\* not depend on the order).
MaxLines == 3

Probes == 2

ProbeSteps == {"branch", "status", "upstream", "behind", "ahead"}

LineKinds ==
  << <<" ", "M", " ", "f">>,
     <<"M", " ", " ", "f">>,
     <<"?", "?", " ", "f">>,
     <<" ", "D", " ", "f">>,
     <<"M", "M", " ", "f">>,
     <<"M">>,
     <<" ", "T", " ", "f">> >>

PorcelainLists ==
  {[k \in 1..Len(ks) |-> LineKinds[ks[k]]] :
     ks \in {s \in UNION {[1..n -> 1..Len(LineKinds)] : n \in 0..MaxLines} :
               \A j, k \in 1..Len(s) : j < k => s[j] <= s[k]}}

Repositories ==
  {r \in [branch : {<<"main", "\n">>, <<"\n">>},
          porcelain : PorcelainLists,
          upstream : BOOLEAN,
          onlyUpstream : 0..MaxCount,
          onlyHead : 0..MaxCount] :
     ~r.upstream => (r.onlyUpstream = 0 /\ r.onlyHead = 0)}

\* statusResult.text().split("\n"): the lines and what follows the last "\n"
Split(lines) == lines \o << <<>> >>

\* .filter((line) => line.length >= 2)
LongEnough(line) == Len(line) >= 2

RECURSIVE Filter(_)
Filter(lines) ==
  IF lines = <<>> THEN <<>>
  ELSE IF LongEnough(Head(lines))
       THEN <<Head(lines)>> \o Filter(Tail(lines))
       ELSE Filter(Tail(lines))

\* line[0], line[1]
StatusColumnsTrimmed(line) ==
  LET RECURSIVE Strip(_)
      Strip(l) == IF l # <<>> /\ Head(l) = " " THEN Strip(Tail(l)) ELSE l
      t == Strip(line)
  IN <<IF Len(t) >= 1 THEN t[1] ELSE "", IF Len(t) >= 2 THEN t[2] ELSE "">>
StatusColumns(line) == <<line[1], line[2]>>

\* the body of the for loop, on the counters c
CountLine(c, line) ==
  LET indexStatus == StatusColumns(line)[1]
      worktreeStatus == StatusColumns(line)[2]
  IN [c EXCEPT
        !.staged = IF indexStatus # " " /\ indexStatus # "?"
                   THEN @ + 1 ELSE @,
        !.modified = IF worktreeStatus = "M" THEN @ + 1 ELSE @,
        !.deleted = IF worktreeStatus # "M" /\ worktreeStatus = "D"
                    THEN @ + 1 ELSE @,
        !.untracked = IF indexStatus = "?" THEN @ + 1 ELSE @]

RECURSIVE CountLines(_, _)
CountLines(c, lines) ==
  IF lines = <<>> THEN c
  ELSE CountLines(CountLine(c, Head(lines)), Tail(lines))

\* parseInt(text.trim()) || 0
ParseInt(t) ==
  LET w == Trim(t) IN
  IF w = <<>> THEN 0
  ELSE IF \E n \in 0..(MaxCount + 1) : ToString(n) = w[1]
       THEN CHOOSE n \in 0..(MaxCount + 1) : ToString(n) = w[1]
       ELSE 0

\* git rev-list --count <exclude>..<include>
RevListCountSwapped(r, exclude, include) ==
  <<ToString(IF include = "upstream" THEN r.onlyHead ELSE r.onlyUpstream),
    "\n">>
RevListCount(r, exclude, include) ==
  <<ToString(IF include = "upstream" THEN r.onlyUpstream ELSE r.onlyHead),
    "\n">>

\* the subprocess of a step exits non-zero: the shell promise rejects
StepFails(step) ==
  \/ step \in failing
  \/ step = "upstream" /\ ~repo.upstream

\* let modified = 0 ... let hasUpstream = false
ZeroLocals ==
  [branch |-> <<>>, modified |-> 0, staged |-> 0, untracked |-> 0,
   deleted |-> 0, ahead |-> 0, behind |-> 0, hasUpstream |-> FALSE]

\* const isClean = ...
IsCleanTrackedOnly(l) == l.modified = 0 /\ l.staged = 0 /\ l.deleted = 0
IsClean(l) ==
  l.modified = 0 /\ l.staged = 0 /\ l.untracked = 0 /\ l.deleted = 0

\* the returned RepoStatus (name and path left out)
StatusOf(l) ==
  [branch |-> l.branch, modified |-> l.modified, staged |-> l.staged,
   untracked |-> l.untracked, deleted |-> l.deleted, ahead |-> l.ahead,
   behind |-> l.behind, isClean |-> IsClean(l),
   hasUpstream |-> l.hasUpstream]

ProbeInit ==
  /\ PoolIdle
  /\ GitIdle
  /\ CleanIdle
  /\ CloneIdle
  /\ LoopIdle
  /\ repo \in Repositories
  /\ failing \in SUBSET ProbeSteps
  /\ sPc = "idle"
  /\ sLocal = ZeroLocals
  /\ sRan = <<>>
  /\ sReturned = <<>>

\* getRepoStatus is called: up to the await in getCurrentBranch
ProbeCall ==
  /\ sPc = "idle"
  /\ Len(sReturned) < Probes
  /\ sPc' = "branch"
  /\ sLocal' = ZeroLocals
  /\ sRan' = <<"branch">>
  /\ UNCHANGED <<drv, poolVars, wrapper, git, cleaner, cloner, repo, failing, sReturned>>

\* git branch --show-current has exited; git status --porcelain is started
BranchDone ==
  /\ sPc = "branch"
  /\ sLocal' = [sLocal EXCEPT
                  !.branch = IF StepFails("branch") THEN <<"detached">>
                             ELSE OrElse(Trim(repo.branch), <<"detached">>)]
  /\ sPc' = "status"
  /\ sRan' = Append(sRan, "status")
  /\ UNCHANGED <<drv, poolVars, wrapper, git, cleaner, cloner, repo, failing, sReturned>>

\* git status --porcelain has exited; git rev-parse @{u} is started
StatusDoneConsumes ==
  /\ sPc = "status"
  /\ sLocal' = IF StepFails("status") THEN sLocal
               ELSE CountLines(sLocal, Filter(Split(repo.porcelain)))
  /\ repo' = [repo EXCEPT !.porcelain = <<>>]
  /\ sPc' = "upstream"
  /\ sRan' = Append(sRan, "upstream")
  /\ UNCHANGED <<drv, poolVars, wrapper, git, cleaner, cloner, failing, sReturned>>
StatusDone ==
  /\ sPc = "status"
  /\ sLocal' = IF StepFails("status") THEN sLocal
               ELSE CountLines(sLocal, Filter(Split(repo.porcelain)))
  /\ sPc' = "upstream"
  /\ sRan' = Append(sRan, "upstream")
  /\ UNCHANGED <<drv, poolVars, wrapper, git, cleaner, cloner, repo, failing, sReturned>>

\* a step of the second try block threw, or the block ended: return
ProbeReturn(l) ==
  /\ sLocal' = l
  /\ sReturned' = Append(sReturned, StatusOf(l))
  /\ sPc' = "idle"
  /\ UNCHANGED sRan

\* git rev-parse @{u} has exited
UpstreamDoneFailsAll ==
  /\ sPc = "upstream"
  /\ IF StepFails("upstream")
     THEN ProbeReturn(ZeroLocals)
     ELSE /\ sLocal' = [sLocal EXCEPT !.hasUpstream = TRUE]
          /\ sPc' = "behind"
          /\ sRan' = Append(sRan, "behind")
          /\ UNCHANGED sReturned
  /\ UNCHANGED <<drv, poolVars, wrapper, git, cleaner, cloner, repo, failing>>
UpstreamDone ==
  /\ sPc = "upstream"
  /\ IF StepFails("upstream")
     THEN ProbeReturn(sLocal)
     ELSE /\ sLocal' = [sLocal EXCEPT !.hasUpstream = TRUE]
          /\ sPc' = "behind"
          /\ sRan' = Append(sRan, "behind")
          /\ UNCHANGED sReturned
  /\ UNCHANGED <<drv, poolVars, wrapper, git, cleaner, cloner, repo, failing>>

\* git rev-list --count HEAD..upstream has exited
BehindDone ==
  /\ sPc = "behind"
  /\ IF StepFails("behind")
     THEN ProbeReturn(sLocal)
     ELSE /\ sLocal' = [sLocal EXCEPT
                          !.behind =
                            ParseInt(RevListCount(repo, "HEAD", "upstream"))]
          /\ sPc' = "ahead"
          /\ sRan' = Append(sRan, "ahead")
          /\ UNCHANGED sReturned
  /\ UNCHANGED <<drv, poolVars, wrapper, git, cleaner, cloner, repo, failing>>

\* git rev-list --count upstream..HEAD has exited
AheadDone ==
  /\ sPc = "ahead"
  /\ IF StepFails("ahead")
     THEN ProbeReturn(sLocal)
     ELSE ProbeReturn([sLocal EXCEPT
                         !.ahead =
                           ParseInt(RevListCount(repo, "upstream", "HEAD"))])
  /\ UNCHANGED <<drv, poolVars, wrapper, git, cleaner, cloner, repo, failing>>

ProbeNext ==
  \/ ProbeCall
  \/ BranchDone
  \/ StatusDone
  \/ UpstreamDone
  \/ BehindDone
  \/ AheadDone

ProbeSpec == ProbeInit /\ [][ProbeNext]_vars

\* ----------------------------------------------- the clean driver (CleanApp)
\* One action is one handler with the render and the effects it causes.
MaxRepos == 2
MaxFinds == 2
MaxRuns == 1

\* what a repository looks like to the dirty filter
RepoStates == {"clean", "tracked", "untracked"}

CleanOptions ==
  [dryRun : BOOLEAN, interactive : BOOLEAN, force : BOOLEAN, all : BOOLEAN]

\* statuses.filter(...): tracked changes, or untracked files with --all
IsDirty(state, all) == state = "tracked" \/ (all /\ state = "untracked")

\* the elements of a set of numbers in ascending order
SortedSeq(S) ==
  CHOOSE s \in [1..Cardinality(S) -> S] :
    \A j, k \in 1..Cardinality(S) : j < k => s[j] < s[k]

\* the dirty list findDirtyRepos computes
DirtyList(states, all) ==
  SortedSeq({r \in 1..Len(states) : IsDirty(states[r], all)})

\* findDirtyRepos: the phase set after a non-empty dirty list, with the
\* isDryRun the call captured
PhaseAfterFindForceFirst(dry, opts) ==
  IF opts.force THEN "cleaning"
  ELSE IF dry
       THEN IF opts.interactive THEN "confirmLiveRun" ELSE "done"
       ELSE "confirming"
PhaseAfterFindNoConfirm(dry, opts) ==
  IF dry
  THEN IF opts.interactive THEN "confirmLiveRun" ELSE "done"
  ELSE "cleaning"
PhaseAfterFind(dry, opts) ==
  IF dry
  THEN IF opts.interactive THEN "confirmLiveRun" ELSE "done"
  ELSE IF opts.force THEN "cleaning" ELSE "confirming"

\* the early return of the first effect
FindGuard(p, d, dry) ==
  Len(d) > 0 /\ ~dry /\ p \in {"confirming", "cleaning"}

\* sequence s without its k-th element
RemoveAt(s, k) == SubSeq(s, 1, k - 1) \o SubSeq(s, k + 1, Len(s))

CleanInit ==
  /\ PoolIdle
  /\ GitIdle
  /\ ProbeIdle
  /\ CloneIdle
  /\ LoopIdle
  /\ cOptions \in CleanOptions
  /\ cOnComplete \in BOOLEAN
  /\ cRepoState \in UNION {[1..n -> RepoStates] : n \in 0..MaxRepos}
  /\ cPhase = "finding"
  /\ cDirty = <<>>
  /\ cIsDryRun = cOptions.dryRun
  /\ cCancelled = FALSE
  /\ cError = FALSE
  /\ cFinds = [b \in BOOLEAN |-> IF b = cOptions.dryRun THEN 1 ELSE 0]
  /\ cRuns = <<>>
  /\ cExitPending = FALSE
  /\ cExited = FALSE
  /\ cEvent = "async"
  /\ cEntered = FALSE
  /\ cCalled = 0
  /\ cProceeded = FALSE

\* The render after a handler set phase p2, dirtyRepos d2 (dirtySet: through
\* setDirtyRepos), isDryRun dry2 and cancelledRef c2, and the effects of that
\* render: findDirtyRepos starts when its dependencies changed and the guard
\* lets it; runCleanup starts when phase or dirtyRepos changed and the phase
\* is cleaning, and sets the phase at once when it has nothing to do.
Commit(p2, d2, dirtySet, dry2, c2, finds0, runs0) ==
  LET fire1 == p2 # cPhase \/ Len(d2) # Len(cDirty) \/ dry2 # cIsDryRun
      find1 == fire1 /\ ~FindGuard(p2, d2, dry2)
      fire2 == p2 # cPhase \/ dirtySet
      acts2 == fire2 /\ p2 = "cleaning"
      ends2 == acts2 /\ (d2 = <<>> \/ c2)
      p3 == IF ends2
            THEN IF d2 # <<>> /\ c2 THEN "cancelled" ELSE "done"
            ELSE p2
      starts == acts2 /\ ~ends2
      nfinds == (IF find1 THEN 1 ELSE 0) + (IF ends2 THEN 1 ELSE 0)
  IN /\ finds0[dry2] + nfinds <= MaxFinds
     /\ starts => Len(runs0) < MaxRuns
     /\ cPhase' = p3
     /\ cDirty' = d2
     /\ cIsDryRun' = dry2
     /\ cCancelled' = c2
     /\ cFinds' = [finds0 EXCEPT ![dry2] = @ + nfinds]
     /\ cRuns' = IF starts THEN Append(runs0, [list |-> d2, i |-> 1])
                 ELSE runs0
     /\ cCalled' = IF starts THEN d2[1] ELSE 0
     /\ cEntered' = (p2 = "cleaning" /\ cPhase # "cleaning")
     /\ cExitPending' =
          \/ cExitPending
          \/ /\ ~cOnComplete
             /\ p3 \in {"done", "cancelled"}
             /\ (ends2 \/ p2 # cPhase)

\* the component is unmounted or the process has exited
Leave ==
  /\ cExited' = TRUE
  /\ cEntered' = FALSE
  /\ cCalled' = 0
  /\ UNCHANGED <<cPhase, cDirty, cIsDryRun, cCancelled, cFinds, cRuns,
                 cExitPending>>

\* a findDirtyRepos call ends: lines 37-80
FindDone(dry) ==
  /\ ~cExited
  /\ cFinds[dry] > 0
  /\ cEvent' = "async"
  /\ LET finds0 == [cFinds EXCEPT ![dry] = @ - 1]
         dirty == DirtyList(cRepoState, cOptions.all)
     IN IF Len(cRepoState) = 0
        THEN /\ cError' = TRUE
             /\ Commit("done", cDirty, FALSE, cIsDryRun, cCancelled, finds0,
                       cRuns)
        ELSE /\ cError' = cError
             /\ IF dirty = <<>>
                THEN Commit("done", <<>>, TRUE, cIsDryRun, cCancelled, finds0,
                            cRuns)
                ELSE Commit(PhaseAfterFind(dry, cOptions), dirty, TRUE,
                            cIsDryRun, cCancelled, finds0, cRuns)
  /\ UNCHANGED <<drv, poolVars, wrapper, git, prober, cloner, cOptions, cOnComplete,
                 cRepoState, cExited, cProceeded>>

\* a findDirtyRepos call throws: lines 81-84
FindThrew(dry) ==
  /\ ~cExited
  /\ cFinds[dry] > 0
  /\ cEvent' = "async"
  /\ cError' = TRUE
  /\ Commit("done", cDirty, FALSE, cIsDryRun, cCancelled,
            [cFinds EXCEPT ![dry] = @ - 1], cRuns)
  /\ UNCHANGED <<drv, poolVars, wrapper, git, prober, cloner, cOptions, cOnComplete,
                 cRepoState, cExited, cProceeded>>

\* the cleanRepo awaited by the k-th runCleanup returns: lines 104-110
CleanReturned(k, ok) ==
  /\ ~cExited
  /\ k \in 1..Len(cRuns)
  /\ cEvent' = "async"
  /\ LET run == cRuns[k] IN
     /\ cRepoState' = IF ok THEN [cRepoState EXCEPT ![run.list[run.i]] = "clean"]
                      ELSE cRepoState
     /\ IF run.i < Len(run.list)
        THEN IF cCancelled
             THEN Commit("cancelled", cDirty, FALSE, cIsDryRun, cCancelled,
                         cFinds, RemoveAt(cRuns, k))
             ELSE /\ cRuns' = [cRuns EXCEPT ![k].i = @ + 1]
                  /\ cCalled' = run.list[run.i + 1]
                  /\ cEntered' = FALSE
                  /\ UNCHANGED <<cPhase, cDirty, cIsDryRun, cCancelled,
                                 cFinds, cExitPending>>
        ELSE Commit("done", cDirty, FALSE, cIsDryRun, cCancelled, cFinds,
                    RemoveAt(cRuns, k))
  /\ UNCHANGED <<drv, poolVars, wrapper, git, prober, cloner, cOptions, cOnComplete,
                 cError, cExited, cProceeded>>

\* the user answers yes in the confirming dialog: handleConfirm
UserConfirm ==
  /\ ~cExited
  /\ ~cError
  /\ cPhase = "confirming"
  /\ cEvent' = "confirm"
  /\ Commit("cleaning", cDirty, FALSE, cIsDryRun, FALSE, cFinds, cRuns)
  /\ UNCHANGED <<drv, poolVars, wrapper, git, prober, cloner, cOptions, cOnComplete,
                 cRepoState, cError, cExited, cProceeded>>

\* the user answers no in the confirming dialog: handleCancel
UserDecline ==
  /\ ~cExited
  /\ ~cError
  /\ cPhase = "confirming"
  /\ cEvent' = "user"
  /\ Leave
  /\ UNCHANGED <<drv, poolVars, wrapper, git, prober, cloner, cOptions, cOnComplete,
                 cRepoState, cError, cProceeded>>

\* the user answers yes under the dry-run preview: handleProceedWithLiveRun
UserProceed ==
  /\ ~cExited
  /\ ~cError
  /\ cPhase = "confirmLiveRun"
  /\ cEvent' = "user"
  /\ cProceeded' = TRUE
  /\ Commit(IF cOptions.force THEN "cleaning" ELSE "confirming", cDirty,
            FALSE, FALSE, FALSE, cFinds, cRuns)
  /\ UNCHANGED <<drv, poolVars, wrapper, git, prober, cloner, cOptions, cOnComplete,
                 cRepoState, cError, cExited>>

\* the user answers no under the dry-run preview: handleCancelLiveRun
UserCancelLiveRun ==
  /\ ~cExited
  /\ ~cError
  /\ cPhase = "confirmLiveRun"
  /\ cEvent' = "user"
  /\ IF cOnComplete
     THEN Leave
     ELSE /\ Commit("done", cDirty, FALSE, cIsDryRun, cCancelled, cFinds,
                    cRuns)
          /\ UNCHANGED cExited
  /\ UNCHANGED <<drv, poolVars, wrapper, git, prober, cloner, cOptions, cOnComplete,
                 cRepoState, cError, cProceeded>>

\* Esc while cleaning: lines 159-161
UserEscape ==
  /\ ~cExited
  /\ cPhase = "cleaning"
  /\ cEvent' = "user"
  /\ Commit("cancelling", cDirty, FALSE, cIsDryRun, TRUE, cFinds, cRuns)
  /\ UNCHANGED <<drv, poolVars, wrapper, git, prober, cloner, cOptions, cOnComplete,
                 cRepoState, cError, cExited, cProceeded>>

\* Esc or Delete on the final screen when onComplete was passed
UserBack ==
  /\ ~cExited
  /\ cOnComplete
  /\ cPhase \in {"done", "cancelled"}
  /\ cEvent' = "user"
  /\ Leave
  /\ UNCHANGED <<drv, poolVars, wrapper, git, prober, cloner, cOptions, cOnComplete,
                 cRepoState, cError, cProceeded>>

\* setTimeout(() => process.exit(0), 100) fires
ExitTimer ==
  /\ ~cExited
  /\ cExitPending
  /\ cEvent' = "async"
  /\ Leave
  /\ UNCHANGED <<drv, poolVars, wrapper, git, prober, cloner, cOptions, cOnComplete,
                 cRepoState, cError, cProceeded>>

CleanNext ==
  \/ \E dry \in BOOLEAN : FindDone(dry)
  \/ \E dry \in BOOLEAN : FindThrew(dry)
  \/ \E k \in 1..MaxRuns, ok \in BOOLEAN : CleanReturned(k, ok)
  \/ UserConfirm
  \/ UserDecline
  \/ UserProceed
  \/ UserCancelLiveRun
  \/ UserEscape
  \/ UserBack
  \/ ExitTimer

CleanSpec == CleanInit /\ [][CleanNext]_vars

\* ----------------------------------------------- the clone driver (CloneApp)
\* The repositories of the list are numbered 1..kRepos; repository r is
\* cloned into, or pulled in, the directory r.
CloneParallel == {1, 2}

CloneOptions ==
  [dryRun : BOOLEAN, interactive : BOOLEAN, parallel : CloneParallel]

\* a runCloneOperations call that awaits loadConfig
NewPool(origin) ==
  [origin |-> origin, state |-> "config", index |-> 0, busy |-> <<>>,
   cancelled |-> FALSE]

\* the items a pool run has in flight
Busy(pool) == DOMAIN pool.busy

\* the clone or pull subprocesses running on repository r
GitOpsOn(r) ==
  {k \in 1..Len(kPools) :
     r \in Busy(kPools[k]) /\ kPools[k].busy[r] \in {"clone", "pull"}}

\* the effect at 40-44 after a render with phase p
ExitAfter(p) ==
  kExitPending \/ (~kOnComplete /\ p \in {"done", "cancelled"} /\ p # kPhase)

CloneInit ==
  /\ PoolIdle
  /\ GitIdle
  /\ ProbeIdle
  /\ CleanIdle
  /\ LoopIdle
  /\ kOptions \in CloneOptions
  /\ kOnComplete \in BOOLEAN
  /\ kActive \in 0..MaxRepos
  /\ kDirs \in SUBSET (1..MaxRepos)
  /\ kPhase = "checking"
  /\ kRepos = 0
  /\ kIsDryRun = kOptions.dryRun
  /\ kRunKey = 0
  /\ kCancelled = FALSE
  /\ kError = FALSE
  /\ kRunA = "config"
  /\ kPools = <<>>
  /\ kHanded = [r \in 1..MaxRepos |-> 0]
  /\ kExitPending = FALSE
  /\ kExited = FALSE

\* run(): loadConfig and getGitHubConfig have answered, listRepos is awaited
CloneConfigLoaded ==
  /\ ~kExited
  /\ kRunA = "config"
  /\ kRunA' = "listing"
  /\ kPhase' = "fetching"
  /\ UNCHANGED <<drv, poolVars, wrapper, git, prober, cleaner, kOptions,
                 kOnComplete, kActive, kDirs, kRepos, kIsDryRun, kRunKey,
                 kCancelled, kError, kPools, kHanded, kExitPending, kExited>>

\* run(): listRepos has answered.  A live run sets repos and phase cloning
\* and calls runCloneOperations; the render that follows runs the effect at
\* 175-182, whose condition holds, and which calls runCloneOperations too.
CloneListed ==
  /\ ~kExited
  /\ kRunA = "listing"
  /\ kRunA' = "idle"
  /\ IF kActive = 0
     THEN /\ kError' = TRUE
          /\ kPhase' = "done"
          /\ kExitPending' = ExitAfter("done")
          /\ UNCHANGED <<kRepos, kPools>>
     ELSE /\ kRepos' = kActive
          /\ UNCHANGED kError
          /\ IF kOptions.dryRun
             THEN LET p == IF kOptions.interactive THEN "confirmLiveRun"
                           ELSE "done"
                  IN /\ kPhase' = p
                     /\ kExitPending' = ExitAfter(p)
                     /\ UNCHANGED kPools
             ELSE /\ kPhase' = "cloning"
                  /\ kPools' = <<NewPool("run")>>
                               \o (IF ~kIsDryRun THEN <<NewPool("effect")>>
                                   ELSE <<>>)
                  /\ UNCHANGED kExitPending
  /\ UNCHANGED <<drv, poolVars, wrapper, git, prober, cleaner, kOptions,
                 kOnComplete, kActive, kDirs, kIsDryRun, kRunKey, kCancelled,
                 kHanded, kExited>>

\* handleProceedWithLiveRun, then the effects: the first returns at its
\* guard, the second calls runCloneOperations
CloneProceed ==
  /\ ~kExited
  /\ ~kError
  /\ kPhase = "confirmLiveRun"
  /\ kCancelled' = FALSE
  /\ kPhase' = "cloning"
  /\ kIsDryRun' = FALSE
  /\ kRunKey' = kRunKey + 1
  /\ kPools' = IF kRepos > 0 THEN Append(kPools, NewPool("effect")) ELSE kPools
  /\ UNCHANGED <<drv, poolVars, wrapper, git, prober, cleaner, kOptions,
                 kOnComplete, kActive, kDirs, kRepos, kError, kRunA, kHanded,
                 kExitPending, kExited>>

\* handleCancelLiveRun
CloneCancelLiveRun ==
  /\ ~kExited
  /\ ~kError
  /\ kPhase = "confirmLiveRun"
  /\ IF kOnComplete
     THEN kExited' = TRUE /\ UNCHANGED <<kPhase, kExitPending>>
     ELSE /\ kPhase' = "done"
          /\ kExitPending' = ExitAfter("done")
          /\ UNCHANGED kExited
  /\ UNCHANGED <<drv, poolVars, wrapper, git, prober, cleaner, kOptions,
                 kOnComplete, kActive, kDirs, kRepos, kIsDryRun, kRunKey,
                 kCancelled, kError, kRunA, kPools, kHanded>>

\* runCloneOperations: loadConfig has answered, runParallel starts its
\* workers; each polls cancelledRef, claims an item and awaits
\* directoryExists.  With cancelledRef set the pool returns at once.
ClonePoolStart(k) ==
  /\ ~kExited
  /\ k \in 1..Len(kPools)
  /\ kPools[k].state = "config"
  /\ IF kCancelled
     THEN /\ kPools' = RemoveAt(kPools, k)
          /\ kPhase' = "cancelled"
          /\ kExitPending' = ExitAfter("cancelled")
          /\ UNCHANGED kHanded
     ELSE LET w == Min(kOptions.parallel, kRepos) IN
          /\ kPools' = [kPools EXCEPT
                          ![k] = [@ EXCEPT !.state = "running", !.index = w,
                                           !.busy = [r \in 1..w |-> "checking"]]]
          /\ kHanded' = [r \in 1..MaxRepos |->
                           IF r <= w THEN kHanded[r] + 1 ELSE kHanded[r]]
          /\ UNCHANGED <<kPhase, kExitPending>>
  /\ UNCHANGED <<drv, poolVars, wrapper, git, prober, cleaner, kOptions,
                 kOnComplete, kActive, kDirs, kRepos, kIsDryRun, kRunKey,
                 kCancelled, kError, kRunA, kExited>>

\* the operation: directoryExists has answered, pullRepo or cloneRepo starts
CloneOpExists(k, r) ==
  /\ ~kExited
  /\ k \in 1..Len(kPools)
  /\ r \in Busy(kPools[k])
  /\ kPools[k].busy[r] = "checking"
  /\ kPools' = [kPools EXCEPT
                  ![k].busy[r] = IF r \in kDirs THEN "pull" ELSE "clone"]
  /\ kDirs' = kDirs \cup {r}
  /\ UNCHANGED <<drv, poolVars, wrapper, git, prober, cleaner, kOptions,
                 kOnComplete, kActive, kRepos, kPhase, kIsDryRun, kRunKey,
                 kCancelled, kError, kRunA, kHanded, kExitPending, kExited>>

\* pullRepo or cloneRepo has returned: the worker records, reports, and
\* claims the next item or ends; when the last worker ends runParallel
\* returns and runCloneOperations sets the phase
CloneOpDone(k, r) ==
  /\ ~kExited
  /\ k \in 1..Len(kPools)
  /\ r \in Busy(kPools[k])
  /\ kPools[k].busy[r] \in {"clone", "pull"}
  /\ LET pool == kPools[k]
         rest == [x \in Busy(pool) \ {r} |-> pool.busy[x]]
         more == pool.index < kRepos
         next == pool.index + 1
         after ==
           IF more /\ ~kCancelled
           THEN [pool EXCEPT !.index = next,
                             !.busy = [x \in DOMAIN rest \cup {next} |->
                                         IF x = next THEN "checking"
                                         ELSE rest[x]]]
           ELSE [pool EXCEPT !.busy = rest,
                             !.cancelled = @ \/ (more /\ kCancelled)]
     IN /\ kHanded' = IF more /\ ~kCancelled
                      THEN [kHanded EXCEPT ![next] = @ + 1]
                      ELSE kHanded
        /\ IF Busy(after) = {}
           THEN LET p == IF after.cancelled THEN "cancelled" ELSE "done" IN
                /\ kPools' = RemoveAt(kPools, k)
                /\ kPhase' = p
                /\ kExitPending' = ExitAfter(p)
           ELSE /\ kPools' = [kPools EXCEPT ![k] = after]
                /\ UNCHANGED <<kPhase, kExitPending>>
  /\ UNCHANGED <<drv, poolVars, wrapper, git, prober, cleaner, kOptions,
                 kOnComplete, kActive, kDirs, kRepos, kIsDryRun, kRunKey,
                 kCancelled, kError, kRunA, kExited>>

\* Esc while fetching or cloning
CloneEscape ==
  /\ ~kExited
  /\ kPhase \in {"cloning", "fetching"}
  /\ kCancelled' = TRUE
  /\ kPhase' = "cancelling"
  /\ UNCHANGED <<drv, poolVars, wrapper, git, prober, cleaner, kOptions,
                 kOnComplete, kActive, kDirs, kRepos, kIsDryRun, kRunKey,
                 kError, kRunA, kPools, kHanded, kExitPending, kExited>>

\* Esc or Delete on the final screen when onComplete was passed
CloneBack ==
  /\ ~kExited
  /\ kOnComplete
  /\ kPhase \in {"done", "cancelled"}
  /\ kExited' = TRUE
  /\ UNCHANGED <<drv, poolVars, wrapper, git, prober, cleaner, kOptions,
                 kOnComplete, kActive, kDirs, kRepos, kPhase, kIsDryRun,
                 kRunKey, kCancelled, kError, kRunA, kPools, kHanded,
                 kExitPending>>

\* setTimeout(() => process.exit(0), 100) fires
CloneExitTimer ==
  /\ ~kExited
  /\ kExitPending
  /\ kExited' = TRUE
  /\ UNCHANGED <<drv, poolVars, wrapper, git, prober, cleaner, kOptions,
                 kOnComplete, kActive, kDirs, kRepos, kPhase, kIsDryRun,
                 kRunKey, kCancelled, kError, kRunA, kPools, kHanded,
                 kExitPending>>

CloneNext ==
  \/ CloneConfigLoaded
  \/ CloneListed
  \/ CloneProceed
  \/ CloneCancelLiveRun
  \/ \E k \in 1..2 : ClonePoolStart(k)
  \/ \E k \in 1..2, r \in 1..MaxRepos : CloneOpExists(k, r)
  \/ \E k \in 1..2, r \in 1..MaxRepos : CloneOpDone(k, r)
  \/ CloneEscape
  \/ CloneBack
  \/ CloneExitTimer

CloneSpec == CloneInit /\ [][CloneNext]_vars

\* ------------------------------- the worker loops written inline in drivers
\* UpdateApp.runUpdateOperations, FetchApp, ExecApp, CheckoutApp and DiffApp
\* each carry their own copy of the loop.  It is run here beside runParallel
\* on the same list (repoPaths = items), with parallelCount = concurrency,
\* the same completions and the same moments of Esc; shouldCancel answers
\* cancelledRef.current.
Drivers == {"update", "fetch", "exec", "checkout", "diff"}

\* what a driver stores for a repository it did not run the operation on,
\* and for a repository without differences
SkippedValue == 1
Null == 0

\* CheckoutApp without --force: getRepoStatus counts modified or staged files
Dirty(it) == it = 2

\* DiffApp: result.hasDiff
HasDiff(v) == v > 2

\* checkoutBranch is preceded by the status probe
Probes1st(d) == d.driver = "checkout" /\ ~d.force

\* the value the loop body of driver d computes for item it at index i
Body(d, it, i) ==
  IF Probes1st(d) /\ Dirty(it) THEN SkippedValue
  ELSE IF d.driver = "diff" /\ ~HasDiff(Operation(it, i)) THEN Null
  ELSE Operation(it, i)

\* processNext from the loop test to its next await
DLoopHeadClaimsFirst(d, w) ==
  IF d.index < Len(items)
  THEN [d EXCEPT !.index = @ + 1,
                 !.cur[w] = d.index,
                 !.claims = Append(@, d.index),
                 !.wasCancelled = @ \/ d.cancelledRef,
                 !.pc[w] = IF d.cancelledRef THEN "done"
                           ELSE IF Probes1st(d) THEN "probing"
                           ELSE "awaiting"]
  ELSE [d EXCEPT !.pc[w] = "done"]
DLoopHead(d, w) ==
  IF d.index < Len(items)
  THEN IF d.cancelledRef
       THEN [d EXCEPT !.wasCancelled = TRUE, !.pc[w] = "done"]
       ELSE [d EXCEPT !.index = @ + 1,
                      !.cur[w] = d.index,
                      !.claims = Append(@, d.index),
                      !.pc[w] = IF Probes1st(d) THEN "probing"
                                ELSE "awaiting"]
  ELSE [d EXCEPT !.pc[w] = "done"]

\* allResults[currentIndex] = result; completed++; setProgress(...)
DRecord(d, w) ==
  [d EXCEPT !.allResults = ArraySet(@, d.cur[w], d.got[w]),
            !.completed = @ + 1,
            !.progress = Append(@, <<d.completed + 1, Len(items)>>)]

LoopInit ==
  /\ PoolInit
  /\ hasOnProgress
  /\ GitIdle
  /\ ProbeIdle
  /\ CleanIdle
  /\ CloneIdle
  /\ \E driver \in Drivers, force \in BOOLEAN :
       /\ force => driver = "checkout"
       /\ drv = [driver |-> driver, force |-> force,
                 cancelledRef |-> shouldCancel,
                 phase |-> IF shouldCancel THEN "cancelling" ELSE "running",
                 stage |-> "starting", started |-> 0,
                 index |-> 0, completed |-> 0, wasCancelled |-> FALSE,
                 allResults |-> <<>>, claims |-> <<>>, progress |-> <<>>,
                 pc |-> [w \in WorkerIds |-> "unstarted"],
                 cur |-> [w \in WorkerIds |-> -1],
                 got |-> [w \in WorkerIds |-> 0]]

\* the guards of the driver loop's steps
DCanStart ==
  drv.stage = "starting" /\ drv.started < Min(concurrency, Len(items))
DCanAwait ==
  drv.stage = "starting" /\ drv.started = Min(concurrency, Len(items))
DCanSettle(w) ==
  \/ drv.pc[w] = "awaiting"
  \/ drv.pc[w] = "probing" /\ Dirty(ItemAt(items, drv.cur[w]))
DCanResume(w) == drv.stage # "starting" /\ drv.pc[w] = "resolved"
DCanFinish ==
  /\ drv.stage = "awaiting"
  /\ \A w \in 1..drv.started : drv.pc[w] = "done"
DCanEsc == drv.phase = "running"

\* .map(() => processNext())
LoopStart ==
  /\ DCanStart
  /\ StartWorker
  /\ drv' = DLoopHead([drv EXCEPT !.started = @ + 1], drv.started + 1)

\* await Promise.all(workers)
LoopAwait ==
  /\ DCanAwait
  /\ AwaitAll
  /\ drv' = [drv EXCEPT !.stage = "awaiting"]

\* CheckoutApp: getRepoStatus answers without modified or staged files and
\* the worker goes on to await checkoutBranch; the item stays in flight
LoopProbedClean(w) ==
  /\ drv.pc[w] = "probing"
  /\ ~Dirty(ItemAt(items, drv.cur[w]))
  /\ drv' = [drv EXCEPT !.pc[w] = "awaiting"]
  /\ UNCHANGED <<poolVars, wrapper, git, prober, cleaner, cloner>>

\* the awaited call of the loop body answers: pullRepo, fetchRepo,
\* execInRepo, diffRepo, checkoutBranch, or getRepoStatus on a repository
\* that CheckoutApp skips
LoopSettle(w) ==
  /\ DCanSettle(w)
  /\ SettleResolve(w)
  /\ drv' = [drv EXCEPT !.pc[w] = "resolved",
                        !.got[w] = Body(drv, ItemAt(items, drv.cur[w]),
                                        drv.cur[w])]

\* the worker continues after the await: record, report, next pass
LoopResume(w) ==
  /\ DCanResume(w)
  /\ ResumeResolved(w)
  /\ drv' = DLoopHead(DRecord(drv, w), w)

\* Promise.all has resolved: setPhase(wasCancelled ? "cancelled" : "done")
LoopReturn ==
  /\ DCanFinish
  /\ Return
  /\ drv' = [drv EXCEPT !.stage = "finished",
                        !.phase = IF drv.wasCancelled THEN "cancelled"
                                  ELSE "done"]

\* useInput: Esc while the loop runs
LoopEsc ==
  /\ DCanEsc
  /\ CancelOn
  /\ drv' = [drv EXCEPT !.cancelledRef = TRUE, !.phase = "cancelling"]

LoopNext ==
  \/ LoopStart
  \/ LoopAwait
  \/ \E w \in Workers : LoopProbedClean(w)
  \/ \E w \in Workers : LoopSettle(w)
  \/ \E w \in Workers : LoopResume(w)
  \/ LoopReturn
  \/ LoopEsc

LoopSpec == LoopInit /\ [][LoopNext]_vars

TypeOK ==
  /\ index \in 0..Len(items)
  /\ completed \in 0..Len(items)
  /\ inFlight \in 0..Len(items)
  /\ phase \in {"starting", "awaiting", "returned", "rejected"}
  /\ \A w \in WorkerIds :
       pc[w] \in {"unstarted", "awaiting", "resolved", "threw", "done",
                  "failed"}

\* ------------------------------------------------------------- properties
Indices == 0..(Len(items) - 1)

\* the indices handed to operation() so far
ClaimedIndices == {opCalls[k][2] : k \in 1..Len(opCalls)}

\* how many times index i was handed to operation()
TimesClaimed(i) == Cardinality({k \in 1..Len(opCalls) : opCalls[k][2] = i})

\* a call of shouldCancel() answered true
PolledTrue == \E k \in 1..Len(cancelPolls) : cancelPolls[k][1]

\* a worker stopped claiming because shouldCancel() answered true while an
\* item was still unclaimed
DispatchCutShort ==
  \E k \in 1..Len(cancelPolls) :
    cancelPolls[k][1] /\ cancelPolls[k][2] < Len(items)

\* the predicate answered true at a moment when an item was still unclaimed
CancelBeforeAllClaimed == cancelAt \in Indices

\* C1: with concurrency c >= 1 the number of operations started and not yet
\* completed never exceeds min(c, len(items)).
C1_InFlightBounded ==
  concurrency >= 1 => inFlight <= Min(concurrency, Len(items))

\* the ceiling is reached while a worker is already on its second item
C1_Witness ==
  /\ concurrency >= 1
  /\ concurrency < Len(items)
  /\ inFlight = concurrency
  /\ index > concurrency

\* C2: every present results[i] is operation(items[i], i), at every moment,
\* whatever the completion order and under cancellation; an index that was
\* never claimed has no entry.
C2_ResultsMatchItems ==
  \A i \in DOMAIN results :
    /\ i \in Indices
    /\ i \in ClaimedIndices
    /\ results[i] = Operation(ItemAt(items, i), i)

\* a cancelled run in which item 1 was recorded before item 0
C2_Witness ==
  /\ cancelled
  /\ Len(items) >= 3
  /\ 1 \in DOMAIN results
  /\ 0 \notin DOMAIN results

\* C3: each index of the input is handed to operation() at most once, by
\* whichever worker, and only indices of the input are handed out.
C3_ClaimedAtMostOnce ==
  /\ ClaimedIndices \subseteq Indices
  /\ \A i \in Indices : TimesClaimed(i) <= 1

\* two workers, one of which has claimed again after its first item
C3_Witness ==
  /\ WorkerCount(concurrency, Len(items)) >= 2
  /\ index > WorkerCount(concurrency, Len(items))
  /\ Len(opCalls) = Len(items)

\* C4: with concurrency >= 1, when shouldCancel never answers true and the
\* run returns, cancelled = false, results has length len(items),
\* results[i] = operation(items[i]) for every i and every item was handed
\* to the operation exactly once.
C4_FullRun ==
  (phase = "returned" /\ concurrency >= 1 /\ ~PolledTrue)
    => /\ ~cancelled
       /\ ArrayLength(results) = Len(items)
       /\ DOMAIN results = Indices
       /\ \A i \in Indices :
            /\ results[i] = Operation(ItemAt(items, i), i)
            /\ TimesClaimed(i) = 1

\* items <<1, 2, 3>> doubled by two workers give <<2, 4, 6>>
C4_Witness ==
  /\ phase = "returned"
  /\ items = <<1, 2, 3>>
  /\ concurrency = 2
  /\ ~PolledTrue
  /\ results = [i \in 0..2 |-> 2 * (i + 1)]
  /\ ~cancelled

\* C5: while shouldCancel answers true no index is claimed; an operation
\* that was in flight still has its result written to its slot and reported
\* through onProgress when the worker resumes, cancel requested or not.
C5_CooperativeCancel ==
  [][ /\ (shouldCancel /\ shouldCancel')
         => (index' = index /\ opCalls' = opCalls)
      /\ \A w \in WorkerIds :
           (pc[w] = "resolved" /\ pc'[w] # "resolved")
             => /\ currentIndex[w] \in DOMAIN results'
                /\ results'[currentIndex[w]] = result[w]
                /\ completed' = completed + 1
                /\ hasOnProgress
                     => Len(progressCalls') = Len(progressCalls) + 1 ]_vars

\* two of three items were in flight when cancel was requested (no worker
\* had resumed yet); both were recorded and reported, the third never claimed
C5_Witness ==
  /\ phase = "returned"
  /\ concurrency = 2
  /\ Len(items) = 3
  /\ cancelAt = 2
  /\ ~withdrawn
  /\ shouldCancel
  /\ cancelled
  /\ index = 2
  /\ DOMAIN results = {0, 1}
  /\ hasOnProgress
  /\ Len(progressCalls) = 2

\* C6 as stated: the run returns cancelled = true iff the predicate became
\* true before every item had been claimed.
C6_Original ==
  phase = "returned" => (cancelled <=> CancelBeforeAllClaimed)

\* C6 amended: with concurrency >= 1 and a predicate that stays true once it
\* is true, the run returns cancelled = true iff the predicate became true
\* before every item had been claimed.
C6_CancelledIff ==
  (phase = "returned" /\ concurrency >= 1 /\ ~withdrawn)
    => (cancelled <=> CancelBeforeAllClaimed)

\* the predicate first became true after the last item was claimed
C6_Witness ==
  /\ phase = "returned"
  /\ concurrency >= 1
  /\ Len(items) >= 2
  /\ shouldCancel
  /\ ~withdrawn
  /\ cancelAt = Len(items)
  /\ ~cancelled

\* C7: with concurrency = 1, if the predicate becomes true after exactly K
\* items were claimed (K < len(items)) and stays true, the run returns
\* cancelled = true with exactly the results of items 0..K-1.
C7_SequentialCancel ==
  (phase = "returned" /\ concurrency = 1 /\ ~withdrawn
     /\ CancelBeforeAllClaimed)
    => /\ cancelled
       /\ DOMAIN results = 0..(cancelAt - 1)
       /\ ArrayLength(results) = cancelAt
       /\ \A i \in DOMAIN results :
            results[i] = Operation(ItemAt(items, i), i)

\* K = 2 of 3 items
C7_Witness ==
  /\ phase = "returned"
  /\ concurrency = 1
  /\ Len(items) = 3
  /\ cancelAt = 2
  /\ ~withdrawn
  /\ cancelled
  /\ DOMAIN results = {0, 1}

\* C8: when the run returns, no operation is in flight and every claimed
\* index has its result in results; cancelled = true exactly when a worker
\* stopped claiming on a true answer of the predicate while an item was
\* unclaimed, and a run with concurrency >= 1 that returns cancelled = false
\* has claimed every item.
C8_ReturnComplete ==
  phase = "returned"
    => /\ inFlight = 0
       /\ \A w \in WorkerIds : pc[w] \in {"unstarted", "done"}
       /\ ClaimedIndices = DOMAIN results
       /\ completed = Len(opCalls)
       /\ cancelled <=> DispatchCutShort
       /\ (~cancelled /\ concurrency >= 1) => index = Len(items)

\* a cancelled run of two workers that returns both claimed results
C8_Witness ==
  /\ phase = "returned"
  /\ cancelled
  /\ concurrency >= 2
  /\ Len(opCalls) = 2
  /\ DOMAIN results = {0, 1}
  /\ Len(items) = 3

\* C9: at return onProgress was invoked once per claimed item, every time
\* with total = len(items), and in a run that is not cancelled the last
\* invocation passed completed = total.
C9_ProgressCount ==
  (phase = "returned" /\ hasOnProgress)
    => /\ Len(progressCalls) = Len(opCalls)
       /\ \A k \in 1..Len(progressCalls) : progressCalls[k][2] = Len(items)
       /\ (~cancelled /\ concurrency >= 1 /\ Len(items) >= 1)
            => /\ Len(progressCalls) >= 1
               /\ progressCalls[Len(progressCalls)][1] = Len(items)

\* a full run of three items, and nothing else
C9_Witness ==
  /\ phase = "returned"
  /\ hasOnProgress
  /\ ~cancelled
  /\ Len(items) = 3
  /\ Len(progressCalls) = 3
  /\ progressCalls[3] = <<3, 3>>

\* C10: the completed values passed to onProgress are 1, 2, 3, ... in the
\* order of the invocations.
C10_ProgressSequence ==
  \A k \in 1..Len(progressCalls) : progressCalls[k][1] = k

\* three workers, one item each, all finished: three reports 1, 2, 3
C10_Witness ==
  /\ Len(progressCalls) = 3
  /\ concurrency = 3
  /\ \E w1, w2, w3 \in Workers :
       /\ currentIndex[w1] = 0 /\ currentIndex[w2] = 1 /\ currentIndex[w3] = 2
       /\ pc[w1] = "done" /\ pc[w2] = "done" /\ pc[w3] = "done"
  /\ progressCalls = <<<<1, 3>>, <<2, 3>>, <<3, 3>>>>

\* C11: with concurrency = 0 or an empty item list no worker is started,
\* neither operation nor onProgress nor shouldCancel is ever invoked, and the
\* run can only return results = [] and cancelled = false; in every run the
\* number of workers started by .map() is min(concurrency, len(items)).
C11_EmptyRun ==
  /\ (concurrency = 0 \/ items = <<>>)
       => /\ started = 0
          /\ \A w \in WorkerIds : pc[w] = "unstarted"
          /\ opCalls = <<>> /\ progressCalls = <<>> /\ cancelPolls = <<>>
          /\ results = <<>> /\ ArrayLength(results) = 0
          /\ ~cancelled
          /\ phase # "rejected"
          /\ phase = "awaiting" => ENABLED Return
  /\ phase # "starting"
       => /\ started = Min(concurrency, Len(items))
          /\ {w \in WorkerIds : pc[w] # "unstarted"} = 1..started

\* concurrency 0 over three items, predicate true all along: returned empty
C11_Witness ==
  /\ phase = "returned"
  /\ concurrency = 0
  /\ Len(items) = 3
  /\ shouldCancel
  /\ results = <<>>
  /\ ~cancelled

\* C12: an exception of the operation is not caught: a run in which an
\* operation threw never returns a result object, it can only be rejected
\* and stays rejected; a run is rejected only when an operation threw.
C12_ThrowFailsRun ==
  [][ /\ (\E w \in WorkerIds : pc[w] \in {"threw", "failed"})
         => phase' # "returned"
      /\ (phase = "awaiting" /\ \E w \in WorkerIds : pc[w] = "failed")
         => (ENABLED Reject /\ ~ENABLED Return)
      /\ phase = "rejected" => phase' = "rejected"
      /\ phase' = "rejected" => \E w \in WorkerIds : pc[w] = "failed" ]_vars

\* the run was rejected although results of other items had been recorded
C12_Witness ==
  /\ phase = "rejected"
  /\ Len(items) = 3
  /\ Cardinality(DOMAIN results) = 2
  /\ \E w \in Workers : pc[w] = "failed"

\* a worker that has run an item claims another one in this step
ClaimsNext(w) == currentIndex[w] # -1 /\ currentIndex'[w] # currentIndex[w]

\* C13: runWithTimeout is a race: when the deadline expires first the
\* operation reports the timeout in that very step, without waiting for the
\* subprocess, and the subprocess is left running; every item reported as
\* timed out carries the timeout outcome.
C13_TimeoutRace ==
  /\ [][ \A w \in WorkerIds :
           (racing[w] /\ currentIndex[w] \in timedOut' \ timedOut)
             => /\ pc'[w] = "resolved"
                /\ result'[w] = TimedOutResult
                /\ currentIndex[w] \in subprocs
                /\ subprocs' = subprocs ]_vars
  /\ [](\A i \in timedOut \cap DOMAIN results : results[i] = TimedOutResult)

\* the timeout of item 0 is in results while its subprocess is still running
C13_Witness ==
  /\ 0 \in timedOut
  /\ 0 \in subprocs
  /\ 0 \in DOMAIN results
  /\ results[0] = TimedOutResult

C15_SubprocessCeiling ==
  concurrency >= 1 => Cardinality(subprocs) <= concurrency

\* ------------------------------------------ properties of the git.ts calls
\* pullRepo has the probed status in hand
PullProbed == gFn = "pull" /\ gPc \in {"awaiting", "returned"}

PullRan == "pull" \in Range(gRan)

\* the words of the claims: uncommitted changes to tracked files
TrackedChanges(st) == st.modified > 0 \/ st.staged > 0 \/ st.deleted > 0

\* the kind of an outcome; an ExecResult has none
Kind(o) == IF "message" \in DOMAIN o THEN o.message ELSE "none"

HasNetworkPhrase(t) ==
  \E p \in ConnectionPhrases : Includes(LowerText(t), p)

\* C16: pullRepo never runs the pull subprocess when the probed status
\* counts a modified, staged or deleted file: it returns success=false,
\* kind skipped, reason "Has uncommitted changes".
C16_PullSkipsUncommitted ==
  (PullProbed /\ TrackedChanges(gStatus)) =>
    /\ ~PullRan
    /\ gOutcome = Some(Skipped(UncommittedChanges))

\* C17: pullRepo never runs the pull subprocess when the probe reports
\* hasUpstream=false: it returns success=false, kind skipped, reason
\* "No upstream configured", and the uncommitted-changes reason instead when
\* the status also counts a modified, staged or deleted file.
C17_PullSkipsNoUpstream ==
  (PullProbed /\ ~gStatus.hasUpstream) =>
    /\ ~PullRan
    /\ gOutcome = Some(Skipped(IF TrackedChanges(gStatus)
                               THEN UncommittedChanges
                               ELSE NoUpstream))

\* C18: every outcome returned by the six functions has success=false when
\* its kind is skipped, not found, exists or error, and carries an error
\* field only when success=false.
C18_OutcomeInvariant ==
  gOutcome # <<>> =>
    LET o == gOutcome[1] IN
    /\ Kind(o) \in {"skipped", "not found", "exists", "error"} => ~o.success
    /\ o.error # None => ~o.success

\* checkoutBranch -b on a branch that exists: kind exists, an error text,
\* success=false
C18_Witness ==
  /\ gFn = "checkout"
  /\ gOutcome # <<>>
  /\ Kind(gOutcome[1]) = "exists"
  /\ gOutcome[1].error # None
  /\ ~gOutcome[1].success

\* C19: for pull, fetch and clone, when the stderr of the failed subprocess
\* or the message of the thrown error contains a network-failure phrase,
\* the outcome is kind error with the generic connection message and
\* nothing of the raw text.
C19_ConnectionErrorGeneric ==
  (/\ gFn \in NetworkFunctions
   /\ gOutcome # <<>>
   /\ \E k \in 1..Len(gFailure) : HasNetworkPhrase(gFailure[k])) =>
    gOutcome[1] =
      Failed(<<OperationName(gFn), "failed", "connection", "error">>)

\* C20: when the deadline of pull, fetch or clone expires before the
\* subprocess has exited, the outcome is success=false, kind error, and its
\* error text says "timed out after N s" with N the timeout in seconds,
\* whatever the subprocess exits with afterwards; execInRepo returns
\* success=false.
C20_TimeoutOutcome ==
  gTimedOut =>
    /\ gOutcome # <<>>
    /\ ~gOutcome[1].success
    /\ gFn \in NetworkFunctions =>
         /\ Kind(gOutcome[1]) = "error"
         /\ gOutcome[1].error # None
         /\ \E n \in 0..(gTimeoutMs \div 1000 + 1) :
              /\ 1000 * n - gTimeoutMs <= 500
              /\ gTimeoutMs - 1000 * n <= 500
              /\ Includes(gOutcome[1].error[1],
                          <<"timed", "out", "after", ToString(n), "s">>)

\* fetchRepo timed out and its subprocess exited with 0 afterwards
C20_Witness ==
  /\ gFn = "fetch"
  /\ gTimedOut
  /\ gLateExit = <<0>>
  /\ gOutcome # <<>>

\* what checkoutBranch reads as the output of its subprocess
CheckoutOutput(x) == IF x.stdout # <<>> THEN x.stdout ELSE x.stderr

BranchNotFoundText(t) ==
  Includes(t, <<"did", "not", "match", "any">>) \/ Includes(t, <<"pathspec">>)

AlreadyExistsText(t) == Includes(t, <<"already", "exists">>)

CheckoutExited == gFn = "checkout" /\ gOutcome # <<>> /\ gExits # <<>>

\* C21: checkoutBranch classifies in fixed order: exit 0 is success, kind
\* created with create and switched without; a non-zero exit is
\* success=false, kind not found when the output has branch-not-found text,
\* otherwise exists when it has "already exists", otherwise error carrying
\* the raw output.
C21_CheckoutClassification ==
  CheckoutExited =>
    LET x == gExits[1]
        output == CheckoutOutput(x)
        o == gOutcome[1]
    IN /\ x.exitCode = 0 =>
            /\ o.success
            /\ o.message = IF gOpts.create THEN "created" ELSE "switched"
       /\ x.exitCode # 0 =>
            /\ ~o.success
            /\ o.message = IF BranchNotFoundText(output) THEN "not found"
                           ELSE IF AlreadyExistsText(output) THEN "exists"
                           ELSE "error"
            /\ (o.message = "error" /\ output # <<>>) => o.error = Some(output)

\* a failed checkout whose output has both texts is reported as not found
C21_Witness ==
  /\ CheckoutExited
  /\ gExits[1].exitCode # 0
  /\ BranchNotFoundText(CheckoutOutput(gExits[1]))
  /\ AlreadyExistsText(CheckoutOutput(gExits[1]))
  /\ gOutcome[1].message = "not found"

\* ------------------------------------------------ properties of the probe
\* the porcelain lines with both status columns
TwoColumnLines == {j \in 1..Len(repo.porcelain) : Len(repo.porcelain[j]) >= 2}

\* how many of them have column col (1 or 2) in the set chars
ColumnCount(col, chars) ==
  Cardinality({j \in TwoColumnLines : repo.porcelain[j][col] \in chars})

StagedLines ==
  Cardinality({j \in TwoColumnLines : repo.porcelain[j][1] \notin {" ", "?"}})

\* the branch git reports, or the sentinel
TrueBranch ==
  IF repo.branch = <<"\n">> THEN <<"detached">> ELSE <<repo.branch[1]>>

\* C22: the counters come from the two status columns of each line, leading
\* spaces kept: column 1 neither blank nor "?" counts as staged, column 2
\* "M" as modified and "D" as deleted, column 1 "?" as untracked only; a
\* line shorter than 2 characters counts as nothing.
C22_PorcelainCounts ==
  \A k \in 1..Len(sReturned) :
    "status" \notin failing =>
      /\ sReturned[k].staged = StagedLines
      /\ sReturned[k].modified = ColumnCount(2, {"M"})
      /\ sReturned[k].deleted = ColumnCount(2, {"D"})
      /\ sReturned[k].untracked = ColumnCount(1, {"?"})

\* " M f", "?? f" and the short line "M": modified 1, untracked 1, staged 0
C22_Witness ==
  /\ sReturned # <<>>
  /\ "status" \notin failing
  /\ repo.porcelain = <<LineKinds[1], LineKinds[3], LineKinds[6]>>
  /\ sReturned[1].modified = 1
  /\ sReturned[1].untracked = 1
  /\ sReturned[1].staged = 0
  /\ sReturned[1].deleted = 0

\* C23: in every returned status isClean is true exactly when modified,
\* staged, untracked and deleted are all 0.
C23_IsClean ==
  \A k \in 1..Len(sReturned) :
    sReturned[k].isClean <=>
      /\ sReturned[k].modified = 0
      /\ sReturned[k].staged = 0
      /\ sReturned[k].untracked = 0
      /\ sReturned[k].deleted = 0

\* two modified tracked files and one untracked file
C23_Witness ==
  /\ sReturned # <<>>
  /\ repo.porcelain = <<LineKinds[1], LineKinds[1], LineKinds[3]>>
  /\ sReturned[1].modified = 2
  /\ sReturned[1].staged = 0
  /\ sReturned[1].untracked = 1
  /\ ~sReturned[1].isClean

\* what C24 says of the fields of branch, porcelain list and upstream
DegradesByStep(st) ==
  /\ st.branch = IF "branch" \in failing THEN <<"detached">> ELSE TrueBranch
  /\ IF "status" \in failing
     THEN st.modified = 0 /\ st.staged = 0 /\ st.untracked = 0
          /\ st.deleted = 0
     ELSE st.modified = ColumnCount(2, {"M"}) /\ st.staged = StagedLines
          /\ st.untracked = ColumnCount(1, {"?"})
          /\ st.deleted = ColumnCount(2, {"D"})
  /\ st.hasUpstream = (repo.upstream /\ "upstream" \notin failing)
  /\ ~st.hasUpstream => (st.ahead = 0 /\ st.behind = 0)
  /\ st.hasUpstream =>
       st.behind = IF "behind" \in failing THEN 0 ELSE repo.onlyUpstream

\* every call that is under way can take its next step
ProbeNeverStuck == sPc # "idle" => ENABLED ProbeNext

\* C24 as stated: getRepoStatus never fails, and for every set of failing
\* subprocesses the fields of a failed step are zero and the fields of every
\* other step are what the repository gives.
C24_Original ==
  /\ ProbeNeverStuck
  /\ \A k \in 1..Len(sReturned) :
       /\ DegradesByStep(sReturned[k])
       /\ sReturned[k].hasUpstream =>
            sReturned[k].ahead =
              IF "ahead" \in failing THEN 0 ELSE repo.onlyHead

\* C24: getRepoStatus never fails, and for every set of failing
\* subprocesses the fields of a failed step are zero and the fields of the
\* other steps are what the repository gives, except that ahead is 0 too
\* when the first count query (behind) fails: the second is then not run.
C24_DegradesToZero ==
  /\ ProbeNeverStuck
  /\ \A k \in 1..Len(sReturned) :
       /\ DegradesByStep(sReturned[k])
       /\ sReturned[k].hasUpstream =>
            sReturned[k].ahead =
              IF "ahead" \in failing \/ "behind" \in failing
              THEN 0 ELSE repo.onlyHead

\* only the first count query fails on a repository that is one commit
\* ahead with a modified file: the counters stand, ahead is reported as 0
C24_Witness ==
  /\ sReturned # <<>>
  /\ failing = {"behind"}
  /\ repo.onlyHead = 1
  /\ sReturned[1].hasUpstream
  /\ sReturned[1].modified = 1
  /\ sReturned[1].ahead = 0

\* C25: hasUpstream=false implies ahead = behind = 0; when the upstream
\* resolves (and the count queries run), behind counts the commits
\* reachable from upstream and not from HEAD, ahead those reachable from
\* HEAD and not from upstream.
C25_AheadBehind ==
  \A k \in 1..Len(sReturned) :
    /\ ~sReturned[k].hasUpstream =>
         (sReturned[k].ahead = 0 /\ sReturned[k].behind = 0)
    /\ (sReturned[k].hasUpstream /\ failing \cap {"behind", "ahead"} = {}) =>
         /\ sReturned[k].behind = repo.onlyUpstream
         /\ sReturned[k].ahead = repo.onlyHead

\* one commit behind, none ahead
C25_Witness ==
  /\ sReturned # <<>>
  /\ sReturned[1].hasUpstream
  /\ repo.onlyUpstream = 1
  /\ repo.onlyHead = 0
  /\ sReturned[1].behind = 1
  /\ sReturned[1].ahead = 0

CleanRepoReturned == gFn = "clean" /\ gOutcome # <<>>

\* every subprocess cleanRepo started has exited with 0
EveryStepExitedZero ==
  /\ Len(gExits) = Len(gRan)
  /\ \A k \in 1..Len(gExits) : gExits[k].exitCode = 0

\* C29: cleanRepo returns success with kind "already clean" exactly when
\* neither step had to run (no modified, staged or deleted file, and no
\* untracked file to remove with includeUntracked), and success with kind
\* "cleaned" exactly when at least one step ran and every step that ran
\* exited with 0.
C29_CleanKinds ==
  CleanRepoReturned =>
    LET o == gOutcome[1] IN
    /\ (o.success /\ o.message = "already clean") <=>
         /\ gStatus.modified = 0 /\ gStatus.staged = 0 /\ gStatus.deleted = 0
         /\ ~(gOpts.includeUntracked /\ gStatus.untracked > 0)
    /\ (o.success /\ o.message = "cleaned") <=>
         (gRan # <<>> /\ EveryStepExitedZero)
    /\ (o.success /\ o.message = "already clean") => gRan = <<>>

\* only untracked files, includeUntracked set: git clean ran alone and the
\* outcome is cleaned
C29_Witness ==
  /\ CleanRepoReturned
  /\ gOpts.includeUntracked
  /\ gStatus.untracked > 0
  /\ gStatus.modified = 0 /\ gStatus.staged = 0 /\ gStatus.deleted = 0
  /\ gRan = <<"clean">>
  /\ gOutcome[1].message = "cleaned"

\* ------------------------------------------ properties of the clean driver
\* the step renders a cleaning phase that was not there, or starts a
\* runCleanup
EntersCleaning ==
  \/ cEntered'
  \/ cPhase' = "cleaning" /\ cPhase # "cleaning"
  \/ Len(cRuns') > Len(cRuns)

\* the step is a yes to the dialog that lists the dirty repositories
ConfirmedStep ==
  /\ cEvent' = "confirm"
  /\ cPhase = "confirming"
  /\ ~cError
  /\ cDirty # <<>>
  /\ Len(cRuns') > Len(cRuns) => cRuns'[Len(cRuns')].list = cDirty

\* C27: with dryRun set, cleanRepo is never called (no runCleanup starts,
\* the cleaning phase is never rendered) unless the user has chosen the live
\* run under the dry-run preview.
C27_DryRunNeverCleans ==
  (cOptions.dryRun /\ ~cProceeded) =>
    /\ cCalled = 0
    /\ cRuns = <<>>
    /\ ~cEntered
    /\ cPhase \notin {"cleaning", "cancelling", "confirming"}

\* dry run with force: the preview of a dirty repository, nothing cleaned
C27_Witness ==
  /\ cOptions.dryRun /\ cOptions.force
  /\ ~cProceeded
  /\ ~cExited
  /\ cPhase = "done"
  /\ cDirty # <<>>
  /\ cCalled = 0

\* C28: without force every entry into the cleaning phase, and so every
\* runCleanup, comes from a yes to the dialog that lists the dirty
\* repositories; with force that dialog is never shown.
C28_ConfirmBeforeClean ==
  /\ [][(~cOptions.force /\ EntersCleaning) => ConfirmedStep]_vars
  /\ [](cOptions.force => (cPhase # "confirming" /\ cEvent # "confirm"))

\* the user has said yes and cleanRepo is called on the first repository
C28_Witness ==
  /\ ~cOptions.force
  /\ cEvent = "confirm"
  /\ cPhase = "cleaning"
  /\ cCalled # 0

\* ------------------------------------------ properties of the clone driver
\* C30: in a live clone run at most one clone or pull operation runs on a
\* repository at a time: each repository of the list is handed to an
\* operation once, and no two pool runs over the list are under way at once.
C30_OneOperationPerRepo ==
  /\ \A r \in 1..kRepos : Cardinality(GitOpsOn(r)) <= 1
  /\ \A r \in 1..kRepos : kHanded[r] <= 1
  /\ Len(kPools) <= 1

\* ------------------------------------------ further properties of the pool
\* an operation has thrown: its promise was rejected
OpThrew == \E w \in WorkerIds : pc[w] \in {"threw", "failed"}

\* C31: an exception thrown by the operation aborts the whole run: once the
\* operation has thrown for one item, no worker claims or starts a further
\* item.
C31_ThrowStopsClaims ==
  [][ OpThrew => (index' = index /\ opCalls' = opCalls) ]_vars

\* the workers whose runNext is at one of the places in S
WorkersAt(S) == Cardinality({w \in WorkerIds : pc[w] \in S})

\* operations that were started and whose worker has not continued yet
Pending == WorkersAt({"awaiting", "resolved"})

\* operations that threw
Thrown == WorkersAt({"threw", "failed"})

\* .map() has made all its runNext() calls
MapDone == phase # "starting"

\* C32 as stated: 0 <= completed <= cursor <= len(items), the cursor never
\* decreases, cursor - completed is the number of operations in flight, and
\* min(concurrency, len(items)) workers are started.
C32_Original ==
  /\ [](/\ 0 <= completed
        /\ completed <= index
        /\ index <= Len(items)
        /\ index - completed = Pending
        /\ MapDone => started = Min(concurrency, Len(items)))
  /\ [][index' >= index]_vars

\* C32 amended: 0 <= completed <= cursor <= len(items), the cursor never
\* decreases, cursor - completed is the number of operations in flight plus
\* the number of operations that threw (which are never counted as
\* completed), and once the workers have been created their number is
\* min(concurrency, len(items)), never more before that.
C32_Counters ==
  /\ [](/\ 0 <= completed
        /\ completed <= index
        /\ index <= Len(items)
        /\ index - completed = Pending + Thrown
        /\ started <= Min(concurrency, Len(items))
        /\ MapDone => started = Min(concurrency, Len(items)))
  /\ [][index' >= index]_vars

\* one operation threw, one is recorded and one is still in flight
C32_Witness ==
  /\ MapDone
  /\ Thrown = 1
  /\ completed = 1
  /\ Pending = 1
  /\ index = 3

\* a worker records a result, counts it or reports it in this step
Records ==
  \/ results' # results
  \/ completed' # completed
  \/ progressCalls' # progressCalls

\* C33: the write of results[index], the increment of completed and the
\* onProgress call of one finished item are one uninterrupted step: exactly
\* one worker records, at its own index, no other worker moves, the value
\* reported is the number of entries then present, and the claim the worker
\* makes afterwards takes the cursor as it stood before the step.
C33_RecordIsOneStep ==
  /\ [](Cardinality(DOMAIN results) = completed)
  /\ [][ Records =>
           \E w \in Workers :
             /\ pc[w] = "resolved"
             /\ currentIndex[w] \notin DOMAIN results
             /\ DOMAIN results' = DOMAIN results \cup {currentIndex[w]}
             /\ completed' = completed + 1
             /\ progressCalls' =
                  IF hasOnProgress
                  THEN Append(progressCalls,
                              <<Cardinality(DOMAIN results'), Len(items)>>)
                  ELSE progressCalls
             /\ \A v \in WorkerIds \ {w} :
                  pc'[v] = pc[v] /\ currentIndex'[v] = currentIndex[v]
             /\ IF currentIndex'[w] # currentIndex[w]
                THEN currentIndex'[w] = index /\ index' = index + 1
                ELSE index' = index ]_vars

\* two items were reported, the later one first, while item 0 is in flight
C33_Witness ==
  /\ Len(progressCalls) = 2
  /\ DOMAIN results = {1, 2}
  /\ \E w \in Workers : pc[w] = "awaiting" /\ currentIndex[w] = 0

\* the present entries of results are the indices below k, with length k
PrefixOf(k) == DOMAIN results = 0..(k - 1) /\ ArrayLength(results) = k

\* C34 as stated: at return the present entries of results are exactly the
\* indices 0..k-1, k the number of claimed items, and results.length = k; in
\* a cancelled run k < len(items).
C34_Original ==
  phase = "returned"
    => /\ PrefixOf(Len(opCalls))
       /\ (cancelled \/ CancelBeforeAllClaimed) => Len(opCalls) < Len(items)

\* C34 amended: the prefix holds as stated; k < len(items) holds in a
\* cancelled run when the predicate stays true once it has become true.
C34_ContiguousPrefix ==
  phase = "returned"
    => /\ PrefixOf(Len(opCalls))
       /\ Len(opCalls) = index
       /\ (~withdrawn /\ (cancelled \/ CancelBeforeAllClaimed))
            => Len(opCalls) < Len(items)

\* three workers, cancel requested after the first claim: one result of three
C34_Witness ==
  /\ phase = "returned"
  /\ concurrency = 3
  /\ Len(items) = 3
  /\ cancelled
  /\ ~withdrawn
  /\ index = 1
  /\ DOMAIN results = {0}

\* C35: if every dispatched operation completes without throwing, the run
\* returns, whether or not cancellation is requested; while cancellation
\* stays requested no operation is added to those in flight, and the run can
\* return as soon as none is left; while an operation has not completed the
\* run does not return.
C35_Returns ==
  /\ <>(phase = "returned")
  /\ [][ (shouldCancel /\ shouldCancel') => Pending' <= Pending ]_vars
  /\ []((MapDone /\ Pending = 0) => (phase = "returned" \/ ENABLED Return))
  /\ []((\E w \in Workers : pc[w] = "awaiting")
          => (phase # "returned" /\ ~ENABLED Return))

\* a run of two workers returned after cancellation was requested with both
\* operations in flight and an item unclaimed
C35_Witness ==
  /\ phase = "returned"
  /\ concurrency = 2
  /\ Len(items) = 3
  /\ cancelAt = 2
  /\ cancelled
  /\ ~withdrawn
  /\ ~hasOnProgress
  /\ completed = 2

\* ------------------------------------------ the race of runWithTimeout
\* the race of runWithTimeout is settled in this step
RaceSettles ==
  /\ gFn \in TimeoutWrapped
  /\ gPc = "awaiting"
  /\ gOutcome = <<>>
  /\ gOutcome' # <<>>

\* what the function makes of the exit x of its subprocess
ExitOutcome(x) ==
  CASE gFn = "pull" -> PullResult(x.exitCode, x.stdout)
    [] gFn = "fetch" -> FetchResult(x.exitCode, x.stdout, x.stderr)
    [] gFn = "clone" ->
         CloneResult(gOpts.shallow, x.exitCode, x.stdout, x.stderr)
    [] gFn = "exec" -> ExecResult(x.exitCode, x.stdout, x.stderr)

\* the outcome of a timeout
TimeoutOutcome == Caught(gFn, GitTimeoutError(gTimeoutMs))

\* C36: the outcome of runWithTimeout is decided once, by whichever of
\* subprocess completion and deadline expiry comes first: the step that
\* settles the race gives the subprocess's result when the subprocess
\* completed, and the timeout failure when the timer fired with the
\* subprocess still running; no later step (the timer firing after the
\* completion, the subprocess exiting after the deadline) changes it.
C36_DecidedOnce ==
  /\ [][ RaceSettles =>
           IF gTimedOut'
           THEN /\ gRunning'
                /\ gExits' = gExits
                /\ gOutcome' = Some(TimeoutOutcome)
           ELSE /\ ~gRunning'
                /\ \/ /\ Len(gExits') = Len(gExits) + 1
                      /\ gOutcome' = Some(ExitOutcome(gExits'[Len(gExits')]))
                   \/ /\ gExits' = gExits
                      /\ Len(gFailure') = Len(gFailure) + 1
                      /\ gOutcome' =
                           Some(Caught(gFn,
                                  ShellError(gFailure'[Len(gFailure')]))) ]_vars
  /\ [][ gOutcome # <<>> => gOutcome' = gOutcome ]_vars
  /\ [](gLateTimer => (~gTimedOut /\ gOutcome # <<>>))
  /\ []((gTimedOut /\ gOutcome # <<>>) => gOutcome = Some(TimeoutOutcome))

\* fetchRepo succeeded and the timer fired afterwards
C36_Witness ==
  /\ gFn = "fetch"
  /\ gLateTimer
  /\ gOutcome # <<>>
  /\ gOutcome[1].success
  /\ Len(gExits) = 1

\* ------------------------------------- properties of the inline worker loops
\* every step runParallel can take, the driver loop can take, and conversely
GuardsAgree ==
  /\ ENABLED StartWorker <=> DCanStart
  /\ ENABLED AwaitAll <=> DCanAwait
  /\ \A w \in WorkerIds :
       /\ ENABLED SettleResolve(w) <=> drv.pc[w] \in {"awaiting", "probing"}
       /\ ENABLED ResumeResolved(w) <=> DCanResume(w)
  /\ ENABLED Return <=> DCanFinish
  /\ ENABLED CancelOn <=> DCanEsc

\* C37: the inline loops of the update, fetch, exec, checkout and diff
\* drivers behave as runParallel with cancelledRef as the predicate: for the
\* same items, concurrency, completion order and Esc moments they can take
\* the same steps, claim the same indices in the same order, fill the same
\* slots, each with the value of the loop body for the item at that index,
\* report the same progress sequence, and end in phase 'cancelled' exactly
\* when runParallel returns cancelled = true.
C37_LoopsAsRunParallel ==
  /\ GuardsAgree
  /\ drv.claims = [k \in 1..Len(opCalls) |-> opCalls[k][2]]
  /\ drv.index = index
  /\ drv.completed = completed
  /\ DOMAIN drv.allResults = DOMAIN results
  /\ \A i \in DOMAIN results :
       /\ drv.allResults[i] = Body(drv, ItemAt(items, i), i)
       /\ results[i] = Operation(ItemAt(items, i), i)
  /\ drv.progress = progressCalls
  /\ drv.wasCancelled = cancelled
  /\ drv.stage = "finished" <=> phase = "returned"
  /\ phase = "returned"
       => /\ drv.phase = "cancelled" <=> cancelled
          /\ drv.phase = "done" <=> ~cancelled
  /\ phase # "returned" => drv.phase \in {"running", "cancelling"}

\* the checkout driver, without --force, was cancelled after two of three
\* repositories, one of which it skipped
C37_Witness ==
  /\ drv.driver = "checkout"
  /\ ~drv.force
  /\ drv.phase = "cancelled"
  /\ Len(items) = 3
  /\ DOMAIN drv.allResults = {0, 1}
  /\ \E i \in {0, 1} : drv.allResults[i] = SkippedValue
  /\ Len(drv.progress) = 2

\* the cleanup loop of a live run has ended and set the final phase
CleanupEnded ==
  /\ ~cExited
  /\ cPhase \in {"done", "cancelled"}
  /\ ~cIsDryRun
  /\ cDirty # <<>>
  /\ ~cError

\* C38: in the clean driver the phases done and cancelled are terminal: once
\* the cleanup loop has ended and one of them is reached, no step other than
\* a user action changes the phase or calls cleanRepo.
C38_FinalPhasesTerminal ==
  [][ (CleanupEnded /\ cEvent' = "async")
        => (cPhase' = cPhase /\ cCalled' = 0) ]_vars

\* C39: getRepoStatus reports isClean = true only when the porcelain change
\* list is empty: every status line of at least two characters increments
\* one of staged, modified, deleted, untracked.
C39_CleanMeansNoChanges ==
  \A k \in 1..Len(sReturned) :
    ("status" \notin failing /\ sReturned[k].isClean) => TwoColumnLines = {}

\* ------------------------------------------ the steps of cleanRepo
\* a subprocess cleanRepo awaited exited with a non-zero code
StepFailedAt(k) == k \in 1..Len(gExits) /\ gExits[k].exitCode # 0

\* C40: cleanRepo runs reset, then the untracked removal, and stops at the
\* first failure: a non-zero exit of a step is the last step and gives
\* success = false with kind error, so after a failed reset the untracked
\* removal is never started; the untracked removal runs only when
\* includeUntracked is set and the probe counted untracked files, the reset
\* only when it counted modified, staged or deleted files.
C40_CleanSteps ==
  gFn = "clean" =>
    /\ gRan \in {<<>>, <<"reset">>, <<"clean">>, <<"reset", "clean">>}
    /\ "reset" \in Range(gRan) => TotalChanges(gStatus) > 0
    /\ "clean" \in Range(gRan)
         => (gOpts.includeUntracked /\ gStatus.untracked > 0)
    /\ \A k \in 1..Len(gExits) :
         /\ gExits[k].step = gRan[k]
         /\ StepFailedAt(k)
              => /\ Len(gRan) = k
                 /\ gOutcome # <<>>
                 /\ ~gOutcome[1].success
                 /\ gOutcome[1].message = "error"

\* the reset failed in a repository whose untracked files were to be removed
C40_Witness ==
  /\ gFn = "clean"
  /\ gOpts.includeUntracked
  /\ gStatus.untracked > 0
  /\ gRan = <<"reset">>
  /\ StepFailedAt(1)
  /\ gOutcome # <<>>
  /\ gOutcome[1].message = "error"

====
